---- MODULE Spec2Model ----
(***************************************************************************)
(* Model of hexglobe-rs: the integer-barycentric lattice of one subdivided *)
(* triangle (src/src/subdivided_triangle.rs), the packed vertex key        *)
(* (src/src/projection/packed_index.rs), the seed icosahedron              *)
(* (src/src/projection/seed.rs) and the Goldberg polyhedron built from     *)
(* them (src/src/hexglobe.rs).                                             *)
(*                                                                         *)
(* Every index that is a VALUE of the program (vertex index, triangle      *)
(* index, face index, seed-face id) is 0-based as in the Rust code; TLA+   *)
(* sequences are 1-based, so element i of a Rust Vec v is v[i + 1].        *)
(***************************************************************************)
EXTENDS Integers, Sequences, FiniteSets, TLC

VARIABLES
    n,            \* the const generic N of HexGlobe<N> / SubdividedTriangle<N>
    pc,           \* "start" | "lattice" | "globe" | "panicked"
    subdivision,  \* SubdividedTriangle<N> { vertices, triangles }
    seed,         \* Seed<N> { faces }
    faces,        \* HexGlobe<N>.faces : Vec<ExactFace>
    op,           \* the last call made: [name |-> ..., arguments ...]
    ret           \* what that call returned

vars == <<n, pc, subdivision, seed, faces, op, ret>>

(***************************************************************************)
(* Bounds of the exploration.                                              *)
(***************************************************************************)
MaxN == 5            \* subdivision levels 0..MaxN are constructed
MaxPackedFace == 35  \* PackedIndex::new is tried with face ids 0..MaxPackedFace
MaxPackedSub == 37   \* ... and subdivision indices 0..MaxPackedSub
WeightUnit == 2       \* slerp weights are tried in steps of 1/WeightUnit
MaxWeight == 3        \* ... from 0 to MaxWeight/WeightUnit

(***************************************************************************)
(* Iterator adaptors of std / itertools, on sequences.                     *)
(***************************************************************************)
Min(a, b) == IF a < b THEN a ELSE b

\* the free const fn max of hexglobe.rs
max(a, b) == IF a > b THEN a ELSE b

\* Rust integer division truncates toward zero
TruncDiv(a, b) ==
    IF a >= 0 THEN a \div b ELSE -((-a) \div b)

\* a..b of Rust (b exclusive) as a sequence; empty when b <= a
Range(a, b) == [k \in 1..(b - a) |-> a + k - 1]

Rev(s) == [k \in 1..Len(s) |-> s[Len(s) + 1 - k]]

Zip(a, b) == [k \in 1..Min(Len(a), Len(b)) |-> <<a[k], b[k]>>]

\* Itertools::tuple_windows::<(_, _)>
TupleWindows2(s) == [k \in 1..(Len(s) - 1) |-> <<s[k], s[k + 1]>>]

\* Itertools::tuple_windows::<(_, _, _)>
TupleWindows3(s) == [k \in 1..(Len(s) - 2) |-> <<s[k], s[k + 1], s[k + 2]>>]

\* Iterator::step_by(2): elements 0, 2, 4, ...
StepBy2(s) == [k \in 1..((Len(s) + 1) \div 2) |-> s[2 * k - 1]]

\* Itertools::interleave: alternate a and b; when one runs out, the rest of
\* the other follows
Interleave(a, b) ==
    LET m == Min(Len(a), Len(b))
    IN  [k \in 1..(Len(a) + Len(b)) |->
            IF k <= 2 * m
            THEN IF k % 2 = 1 THEN a[(k + 1) \div 2] ELSE b[k \div 2]
            ELSE IF Len(a) > m THEN a[k - m] ELSE b[k - m]]

\* Itertools::cartesian_product: every element of a with every element of b,
\* b varying fastest
CartesianProduct(a, b) ==
    [k \in 1..(Len(a) * Len(b)) |->
        <<a[((k - 1) \div Len(b)) + 1], b[((k - 1) % Len(b)) + 1]>>]

\* Iterator::flat_map over a sequence of sequences
RECURSIVE FlattenRange(_, _, _)
FlattenRange(ss, lo, hi) ==
    IF lo > hi THEN <<>>
    ELSE IF lo = hi THEN ss[lo]
    ELSE LET mid == (lo + hi) \div 2
         IN  FlattenRange(ss, lo, mid) \o FlattenRange(ss, mid + 1, hi)

Flatten(ss) == FlattenRange(ss, 1, Len(ss))

\* vec![default; size] followed by items.enumerate().for_each(|(i, x)| vec[i] = x):
\* slots the iterator does not reach keep the placeholder; an item beyond the
\* allocated size is an out-of-bounds write, which panics
IndexOutOfBounds(size, items) == Len(items) > size

FillVec(default, size, items) ==
    [k \in 1..size |-> IF k <= Len(items) THEN items[k] ELSE default]

(***************************************************************************)
(* PackedIndex (usize; every index handled here is far below 2^59, so the  *)
(* shift never drops a bit).                                               *)
(***************************************************************************)
RECURSIVE BitOr(_, _)
BitOr(a, b) ==
    IF a = 0 THEN b
    ELSE IF b = 0 THEN a
    ELSE (IF a % 2 = 1 \/ b % 2 = 1 THEN 1 ELSE 0) + 2 * BitOr(a \div 2, b \div 2)

RECURSIVE BitAnd(_, _)
BitAnd(a, b) ==
    IF a = 0 \/ b = 0 THEN 0
    ELSE (IF a % 2 = 1 /\ b % 2 = 1 THEN 1 ELSE 0) + 2 * BitAnd(a \div 2, b \div 2)

ShiftLeft(a, k) == a * (2 ^ k)

ShiftRight(a, k) == a \div (2 ^ k)

PackedIndexNewShift4(face, sub) == BitOr(ShiftLeft(sub, 4), face)

\* PackedIndex::new
PackedIndexNew(face, sub) == BitOr(ShiftLeft(sub, 5), face)

\* PackedIndex::face
PackedFace(p) == BitAnd(p, 31)

\* PackedIndex::subdivision
PackedSubdivision(p) == ShiftRight(p, 5)

\* PackedIndex::default()
PackedIndexDefault == 0

(***************************************************************************)
(* SubdividedTriangle<N>  (src/src/subdivided_triangle.rs)                 *)
(***************************************************************************)
IVec3(x, y, z) == [x |-> x, y |-> y, z |-> z]

IVec3Add(a, b) == IVec3(a.x + b.x, a.y + b.y, a.z + b.z)

IVec3Sub(a, b) == IVec3(a.x - b.x, a.y - b.y, a.z - b.z)

Triangle(u, v, w) == [u |-> u, v |-> v, w |-> w]

\* the free const fn compute_vertex_index_unchecked(n, v)
compute_vertex_index_unchecked(m, v) ==
    LET x_offset == TruncDiv(v.x * (2 * (m + 1) + 1 - v.x), 2)
        y_offset == v.y
    IN  x_offset + y_offset

n_triangles(m) == m * m

n_vertices(m) == TruncDiv((m + 1) * (m + 2), 2)

n_triangles_up(m) == TruncDiv(m * (m + 1), 2)

n_triangles_down(m) == TruncDiv(m * (m - 1), 2)

NEdgesFourPerTriangle(m) == n_triangles_up(m) * 4

n_edges(m) == n_triangles_up(m) * 3

\* axis x axis x axis in iteration order (x slowest, z fastest), filtered by
\* x + y + z = N
LatticeVertices(m) ==
    LET a == m + 1
        all == [k \in 1..(a * a * a) |->
                   IVec3((k - 1) \div (a * a), ((k - 1) \div a) % a, (k - 1) % a)]
    IN  SelectSeq(all, LAMBDA v : v.x + v.y + v.z = m)

du == IVec3(-1, 1, 0)

dv == IVec3(-1, 0, 1)

\* triangles_up of SubdividedTriangle::new
TrianglesUp(m, vertices) ==
    LET sel == SelectSeq(vertices, LAMBDA v : v.x > 0)
    IN  [k \in 1..Len(sel) |->
            Triangle(compute_vertex_index_unchecked(m, sel[k]),
                     compute_vertex_index_unchecked(m, IVec3Add(sel[k], du)),
                     compute_vertex_index_unchecked(m, IVec3Add(sel[k], dv)))]

TrianglesDownMirrored(m, vertices) ==
    LET sel == SelectSeq(vertices, LAMBDA v : v.y > 0 /\ v.z > 0)
    IN  [k \in 1..Len(sel) |->
            Triangle(compute_vertex_index_unchecked(m, sel[k]),
                     compute_vertex_index_unchecked(m, IVec3Sub(sel[k], dv)),
                     compute_vertex_index_unchecked(m, IVec3Sub(sel[k], du)))]

\* triangles_down of SubdividedTriangle::new
TrianglesDown(m, vertices) ==
    LET sel == SelectSeq(vertices, LAMBDA v : v.y > 0 /\ v.z > 0)
    IN  [k \in 1..Len(sel) |->
            Triangle(compute_vertex_index_unchecked(m, sel[k]),
                     compute_vertex_index_unchecked(m, IVec3Sub(sel[k], du)),
                     compute_vertex_index_unchecked(m, IVec3Sub(sel[k], dv)))]

\* what a struct that was never built holds
NoSubdivision == [vertices |-> <<>>, triangles |-> <<>>]

NonzeroAssertDropped(m) == FALSE

\* assert_ne!(N, 0, "Number of subdivisions must be nonzero.") fails
SubdividedTriangleNewPanics(m) == m = 0

\* SubdividedTriangle::new, past its assertion
SubdividedTriangleNew(m) ==
    LET vs  == LatticeVertices(m)
        ts  == TrianglesUp(m, vs) \o TrianglesDown(m, vs)
    IN  [vertices  |-> FillVec(IVec3(0, 0, 0), n_vertices(m), vs),
         triangles |-> FillVec(Triangle(0, 0, 0), n_triangles(m), ts)]

\* the writes vertices[i] = v / triangles[i] = t of new stay in range
SubdividedTriangleNewInRange(m) ==
    LET vs == LatticeVertices(m)
    IN  /\ ~IndexOutOfBounds(n_vertices(m), vs)
        /\ ~IndexOutOfBounds(n_triangles(m), TrianglesUp(m, vs) \o TrianglesDown(m, vs))

\* SubdividedTriangle::vertex_denominator
vertex_denominator(sub, i) == sub.vertices[i + 1]

upward_row(m, i) ==
    IF i >= m THEN Range(0, 0)
    ELSE LET k == m - i
             start == n_triangles_up(m) - (k * (k + 1)) \div 2
         IN  Range(start, start + k)

downward_row(m, i) ==
    IF i >= m - 1 THEN Range(0, 0)
    ELSE LET k == m - 1 - i
             start == n_triangles_up(m) + n_triangles_down(m) - (k * (k + 1)) \div 2
         IN  Range(start, start + k)

RowDownwardFirst(m, i) == Interleave(downward_row(m, i), upward_row(m, i))

row(m, i) == Interleave(upward_row(m, i), downward_row(m, i))

(***************************************************************************)
(* The copy of the lattice in src/src/subdivision/subdivided_triangle.rs,  *)
(* which src/src/projection/globe.rs builds on.  Its constructor, rows and *)
(* corner indices are those above; its edge runs are written differently.  *)
(***************************************************************************)
\* subdivision::SubdividedTriangle::uv
SubdivisionUV(m) ==
    Interleave([k \in 1..m |->
                   n_triangles_up(m) - ((k - 1) * k) \div 2 - 1],
               [k \in 1..(m - 1) |->
                   n_triangles(m) - ((k - 1) * k) \div 2 - 1])

\* subdivision::SubdividedTriangle::vw
SubdivisionVW(m) == row(m, 0)

\* subdivision::SubdividedTriangle::wu: k runs over (i+1)(i+2)/2 for
\* i = N-1 down to 0
SubdivisionWU(m) ==
    LET kk == [j \in 1..m |-> ((m - j + 1) * (m - j + 2)) \div 2]
    IN  Interleave([j \in 1..m |-> n_triangles_up(m) - kk[j]],
                   [j \in 1..(m - 1) |-> n_triangles(m) - kk[j + 1]])

VOfNextRow(m) == m

\* SubdividedTriangle::u / v / w
u(m) == n_triangles_up(m) - 1

v(m) == m - 1

w(m) == 0

\* SubdividedTriangle::uv: edge[2i] for i in 0..N, edge[2i+1] for i in 0..N-1
uv(m) ==
    [k \in 1..(2 * m - 1) |->
        LET p == k - 1
            i == p \div 2
        IN  IF p % 2 = 0
            THEN n_triangles_up(m) - (i * (i + 1)) \div 2 - 1
            ELSE n_triangles(m) - (i * (i + 1)) \div 2 - 1]

\* SubdividedTriangle::vw
vw(m) ==
    [k \in 1..(2 * m - 1) |->
        LET p == k - 1
            i == p \div 2
        IN  IF p % 2 = 0
            THEN (m - 1) - i
            ELSE n_triangles_up(m) + m - 2 - i]

\* SubdividedTriangle::wu: edge[2i] for i in 0..N, edge[2i-1] for i in 1..N
wu(m) ==
    [k \in 1..(2 * m - 1) |->
        LET p == k - 1
        IN  IF p % 2 = 0
            THEN LET i == p \div 2
                     kk == m - 1 - i
                 IN  n_triangles_up(m) - ((kk + 1) * (kk + 2)) \div 2
            ELSE LET i == (p + 1) \div 2
                     kk == m - 1 - i
                 IN  n_triangles(m) - ((kk + 1) * (kk + 2)) \div 2]

VertexAdjacencyOfLineNoDiagonal(m, x) ==
    LET l == m + 1 - x
        start == n_vertices(m) - (l * (l + 1)) \div 2
        end == start + l
    IN  TupleWindows2(Range(start, end))
        \o Zip(Range(start, end - 1), Range(start + l, end + l - 1))

\* the closure of vertex_adjacency for one lattice line x
VertexAdjacencyOfLine(m, x) ==
    LET l == m + 1 - x
        start == n_vertices(m) - (l * (l + 1)) \div 2
        end == start + l
    IN  TupleWindows2(Range(start, end))
        \o Zip(Range(start, end - 1), Range(start + l, end + l - 1))
        \o Zip(Range(start + 1, end), Range(start + l, end + l - 1))

\* SubdividedTriangle::vertex_adjacency
vertex_adjacency(m) ==
    Flatten([k \in 1..m |-> VertexAdjacencyOfLine(m, k - 1)])

\* Option<usize>
None == [some |-> FALSE]

Some(x) == [some |-> TRUE, value |-> x]

InteriorIndexOfLevelBelow(m, vtx) ==
    compute_vertex_index_unchecked(m - 2, IVec3(vtx.x - 1, vtx.y - 1, vtx.z - 1))

\* SubdividedTriangle::compute_vertex_interior_index_unchecked
compute_vertex_interior_index_unchecked(m, vtx) ==
    compute_vertex_index_unchecked(m - 3, IVec3(vtx.x - 1, vtx.y - 1, vtx.z - 1))

\* SubdividedTriangle::compute_vertex_interior_index (= vertex_interior_index)
compute_vertex_interior_index(m, vtx) ==
    IF vtx.x = 0 \/ vtx.y = 0 \/ vtx.z = 0
    THEN None
    ELSE Some(compute_vertex_interior_index_unchecked(m, vtx))

ComputeVertexIndexSumUnchecked(m, vtx) ==
    IF vtx.x < 0 \/ vtx.y < 0 \/ vtx.z < 0
    THEN None
    ELSE Some(compute_vertex_index_unchecked(m, vtx))

\* SubdividedTriangle::compute_vertex_index (= vertex_index)
compute_vertex_index(m, vtx) ==
    IF vtx.x < 0 \/ vtx.y < 0 \/ vtx.z < 0 \/ vtx.x + vtx.y + vtx.z # m
    THEN None
    ELSE Some(compute_vertex_index_unchecked(m, vtx))

(***************************************************************************)
(* Seed<N>  (src/src/projection/seed.rs).  A corner is the index of one of *)
(* the 12 icosahedron vertices; a rotation about the axis through the      *)
(* vertex `axis` is kept as (axis, degrees).                               *)
(***************************************************************************)
FaceBase(a, b, c) == [kind |-> "Base", corners |-> Triangle(a, b, c)]

FaceSymmetry(i, j, r) == [kind |-> "Symmetry", base |-> i, axis |-> j, degrees |-> r]

\* Seed::icosahedron: the vec! of 20 faces
SeedIcosahedron ==
    << FaceBase(0, 5, 10),
       FaceSymmetry(0, 3, 72), FaceSymmetry(0, 3, 144),
       FaceSymmetry(0, 3, 216), FaceSymmetry(0, 3, 288),
       FaceBase(11, 10, 5),
       FaceSymmetry(5, 3, 72), FaceSymmetry(5, 3, 144),
       FaceSymmetry(5, 3, 216), FaceSymmetry(5, 3, 288),
       FaceBase(10, 11, 7),
       FaceSymmetry(10, 3, 72), FaceSymmetry(10, 3, 144),
       FaceSymmetry(10, 3, 216), FaceSymmetry(10, 3, 288),
       FaceBase(3, 7, 11),
       FaceSymmetry(15, 3, 72), FaceSymmetry(15, 3, 144),
       FaceSymmetry(15, 3, 216), FaceSymmetry(15, 3, 288) >>

\* faces.iter().enumerate().filter_map(..): the 0-based positions of the faces
\* whose kind is `kind`, in order
RECURSIVE EnumerateKind(_, _, _)
EnumerateKind(fs, kind, i) ==
    IF i >= Len(fs) THEN <<>>
    ELSE (IF fs[i + 1].kind = kind THEN << <<i, fs[i + 1]>> >> ELSE <<>>)
         \o EnumerateKind(fs, kind, i + 1)

\* Seed::symmetries
symmetries(fs) ==
    LET sel == EnumerateKind(fs, "Symmetry", 0)
    IN  [k \in 1..Len(sel) |->
            <<sel[k][1], sel[k][2].base, <<sel[k][2].axis, sel[k][2].degrees>> >>]

\* Seed::base_faces
base_faces(fs) ==
    LET sel == EnumerateKind(fs, "Base", 0)
    IN  [k \in 1..Len(sel) |-> <<sel[k][1], sel[k][2].corners>>]

(***************************************************************************)
(* HexGlobe<N>  (src/src/hexglobe.rs)                                      *)
(***************************************************************************)
SEED_VERTICES == 12

SEED_EDGES == 30

SEED_FACES == 20

FACES_PER_VERTEX == 1

FACES_PER_EDGE(m) == m - 1

FACES_PER_FACE_NotHalved(m) == (m - 1) * (max(m, 2) - 2)

FACES_PER_FACE(m) == TruncDiv((m - 1) * (max(m, 2) - 2), 2)

PENTAGONS == SEED_VERTICES

HEXAGONS(m) == SEED_EDGES * FACES_PER_EDGE(m) + SEED_FACES * FACES_PER_FACE(m)

FACES(m) == PENTAGONS + HEXAGONS(m)

MESH_PENTAGON_VERTICES == PENTAGONS * 5

MESH_HEXAGON_VERTICES(m) == HEXAGONS(m) * 6

MESH_VERTICES(m) == MESH_PENTAGON_VERTICES + MESH_HEXAGON_VERTICES(m)

MESH_PENTAGON_TRIANGLES == 3

MESH_HEXAGON_TRIANGLES == 4

MESH_TRIANGLES(m) ==
    PENTAGONS * MESH_PENTAGON_TRIANGLES + HEXAGONS(m) * MESH_HEXAGON_TRIANGLES

Pentagon(vs) == [kind |-> "Pentagon", v |-> vs]

Hexagon(vs) == [kind |-> "Hexagon", v |-> vs]

\* ExactFace::construct_hexagon: each argument is a (face, subdivision) pair
construct_hexagon(c0, c1, c2, c3, c4, c5) ==
    Hexagon(<< PackedIndexNew(c0[1], c0[2]), PackedIndexNew(c1[1], c1[2]),
               PackedIndexNew(c2[1], c2[2]), PackedIndexNew(c3[1], c3[2]),
               PackedIndexNew(c4[1], c4[2]), PackedIndexNew(c5[1], c5[2]) >>)

\* ExactFace::construct_pentagon
construct_pentagon(c0, c1, c2, c3, c4) ==
    Pentagon(<< PackedIndexNew(c0[1], c0[2]), PackedIndexNew(c1[1], c1[2]),
                PackedIndexNew(c2[1], c2[2]), PackedIndexNew(c3[1], c3[2]),
                PackedIndexNew(c4[1], c4[2]) >>)

\* impl Default for ExactFace
ExactFaceDefault ==
    Hexagon([k \in 1..6 |-> PackedIndexDefault])

EdgeWindowsEveryWindow(a, b) == TupleWindows3(Zip(a, Rev(b)))

\* a.into_iter().zip(b.into_iter().rev()).tuple_windows::<(_, _, _)>().step_by(2)
EdgeWindows(a, b) == StepBy2(TupleWindows3(Zip(a, Rev(b))))

\* the closure mapped over every ((face_a, face_b), ((a0, b0), (a1, b1), (a2, b2)))
\* by edge_faces_from_template
EdgeHexagon(item) ==
    LET face_a == item[1][1]
        face_b == item[1][2]
        win == item[2]
    IN  construct_hexagon(<<face_a, win[1][1]>>, <<face_a, win[2][1]>>,
                          <<face_a, win[3][1]>>, <<face_b, win[3][2]>>,
                          <<face_b, win[2][2]>>, <<face_b, win[1][2]>>)

EdgeFacesFromTemplateSeamTwice(m) ==
    LET vw_wv == EdgeWindows(vw(m), vw(m))
        t_t   == CartesianProduct([fk \in 1..5 |-> <<fk - 1, ((fk - 1) + 1) % 5>>],
                                  EdgeWindows(wu(m), uv(m)))
        t_um  == CartesianProduct([fk \in 1..5 |-> <<fk - 1, (fk - 1) + 5>>], vw_wv)
        um_lm == CartesianProduct([fk \in 1..5 |-> <<fk + 4, (fk + 4) + 5>>],
                                  EdgeWindows(uv(m), uv(m)))
        lm_um == CartesianProduct([fk \in 1..5 |-> <<fk + 9, (fk + 9) - 5>>],
                                  EdgeWindows(wu(m), wu(m)))
        lm_b  == CartesianProduct([fk \in 1..5 |-> <<fk + 9, (fk + 9) + 5>>], vw_wv)
        b_b   == CartesianProduct([fk \in 1..5 |-> <<fk + 14, 15 + (((fk + 14) + 1) % 5)>>],
                                  EdgeWindows(uv(m), wu(m)))
        chain == t_t \o t_um \o um_lm \o lm_um \o lm_b \o b_b
    IN  [k \in 1..Len(chain) |-> EdgeHexagon(chain[k])]

\* HexGlobe::edge_faces_from_template
edge_faces_from_template(m) ==
    LET vw_wv == EdgeWindows(vw(m), vw(m))
        t_t   == CartesianProduct([fk \in 1..5 |-> <<fk - 1, ((fk - 1) + 1) % 5>>],
                                  EdgeWindows(wu(m), uv(m)))
        t_um  == CartesianProduct([fk \in 1..5 |-> <<fk - 1, (fk - 1) + 5>>], vw_wv)
        um_lm == CartesianProduct([fk \in 1..5 |-> <<fk + 4, (fk + 4) + 5>>],
                                  EdgeWindows(uv(m), uv(m)))
        lm_um == CartesianProduct([fk \in 1..5 |-> <<fk + 9, 5 + (((fk + 9) + 1) % 5)>>],
                                  EdgeWindows(wu(m), wu(m)))
        lm_b  == CartesianProduct([fk \in 1..5 |-> <<fk + 9, (fk + 9) + 5>>], vw_wv)
        b_b   == CartesianProduct([fk \in 1..5 |-> <<fk + 14, 15 + (((fk + 14) + 1) % 5)>>],
                                  EdgeWindows(uv(m), wu(m)))
        chain == t_t \o t_um \o um_lm \o lm_um \o lm_b \o b_b
    IN  [k \in 1..Len(chain) |-> EdgeHexagon(chain[k])]

\* HexGlobe::vertex_faces_from_template
vertex_faces_from_template(m) ==
    LET tb == << construct_pentagon(<<4, u(m)>>, <<3, u(m)>>, <<2, u(m)>>,
                                    <<1, u(m)>>, <<0, u(m)>>),
                 construct_pentagon(<<15, u(m)>>, <<16, u(m)>>, <<17, u(m)>>,
                                    <<18, u(m)>>, <<19, u(m)>>) >>
        um == [k \in 1..5 |->
                  LET face == k + 4
                  IN  construct_pentagon(<<face - 5, w(m)>>,
                                         <<(face + 1) % 5, v(m)>>,
                                         <<5 + ((face + 1) % 5), w(m)>>,
                                         <<face + 5, u(m)>>,
                                         <<face, v(m)>>)]
        lm == [k \in 1..5 |->
                  LET face == k + 9
                  IN  construct_pentagon(<<face + 5, w(m)>>,
                                         <<15 + ((face + 4) % 5), v(m)>>,
                                         <<10 + ((face + 4) % 5), w(m)>>,
                                         <<face - 5, u(m)>>,
                                         <<face, v(m)>>)]
    IN  tb \o um \o lm

RowPairWindowsUntrimmed(r1, r2) ==
    StepBy2(TupleWindows3(Zip(r1, r2)))

\* the flat_map closure of face_faces_from_template on one (r1, r2) pair of rows
RowPairWindows(r1, r2) ==
    StepBy2(TupleWindows3(Zip(SubSeq(r1, 2, Len(r1) - 1), r2)))

\* face_vertices_iter of face_faces_from_template
face_vertices_iter(m) ==
    LET rows == [k \in 1..m |-> row(m, k - 1)]
        pairs == TupleWindows2(rows)
    IN  Flatten([k \in 1..Len(pairs) |-> RowPairWindows(pairs[k][1], pairs[k][2])])

FaceHexagonFirstCornerTwice(item) ==
    LET face == item[1]
        win == item[2]
    IN  construct_hexagon(<<face, win[1][1]>>, <<face, win[2][1]>>,
                          <<face, win[3][1]>>, <<face, win[3][2]>>,
                          <<face, win[2][2]>>, <<face, win[1][1]>>)

\* the closure mapped over every (face, ((a0, b0), (a1, b1), (a2, b2))) by
\* face_faces_from_template
FaceHexagon(item) ==
    LET face == item[1]
        win == item[2]
    IN  construct_hexagon(<<face, win[1][1]>>, <<face, win[2][1]>>,
                          <<face, win[3][1]>>, <<face, win[3][2]>>,
                          <<face, win[2][2]>>, <<face, win[1][2]>>)

\* HexGlobe::face_faces_from_template
face_faces_from_template(m) ==
    LET prod == CartesianProduct(Range(0, 20), face_vertices_iter(m))
    IN  [k \in 1..Len(prod) |-> FaceHexagon(prod[k])]

FacesFromTemplateEdgesFirst(m) ==
    edge_faces_from_template(m)
        \o vertex_faces_from_template(m)
        \o face_faces_from_template(m)

\* HexGlobe::faces_from_template
faces_from_template(m) ==
    vertex_faces_from_template(m)
        \o edge_faces_from_template(m)
        \o face_faces_from_template(m)

(***************************************************************************)
(* The older generators, ExactGlobe of src/src/projection/globe.rs, built  *)
(* on the lattice of src/src/subdivision/subdivided_triangle.rs.  Its      *)
(* pentagons are those of vertex_faces_from_template and its rows those of *)
(* row; its edge runs are SubdivisionUV, SubdivisionVW and SubdivisionWU.  *)
(***************************************************************************)
\* ExactGlobe::edge_faces_from_template
ExactGlobeEdgeFaces(m) ==
    LET vw_wv == EdgeWindows(SubdivisionVW(m), SubdivisionVW(m))
        t_t   == CartesianProduct([fk \in 1..5 |-> <<fk - 1, ((fk - 1) + 1) % 5>>],
                                  EdgeWindows(SubdivisionWU(m), SubdivisionUV(m)))
        t_um  == CartesianProduct([fk \in 1..5 |-> <<fk - 1, (fk - 1) + 5>>], vw_wv)
        um_lm == CartesianProduct([fk \in 1..5 |-> <<fk + 4, (fk + 4) + 5>>],
                                  EdgeWindows(SubdivisionUV(m), SubdivisionUV(m)))
        lm_um == CartesianProduct([fk \in 1..5 |-> <<fk + 9, 5 + (((fk + 9) + 1) % 5)>>],
                                  EdgeWindows(SubdivisionWU(m), SubdivisionWU(m)))
        lm_b  == CartesianProduct([fk \in 1..5 |-> <<fk + 9, (fk + 9) + 5>>], vw_wv)
        b_b   == CartesianProduct([fk \in 1..5 |-> <<fk + 14, 15 + (((fk + 14) + 1) % 5)>>],
                                  EdgeWindows(SubdivisionUV(m), SubdivisionWU(m)))
        chain == t_t \o t_um \o um_lm \o lm_um \o lm_b \o b_b
    IN  [k \in 1..Len(chain) |->
            LET face_a == chain[k][1][1]
                face_b == chain[k][1][2]
                win == chain[k][2]
            IN  Hexagon(<<PackedIndexNew(face_a, win[1][1]),
                          PackedIndexNew(face_a, win[2][1]),
                          PackedIndexNew(face_a, win[3][1]),
                          PackedIndexNew(face_b, win[3][2]),
                          PackedIndexNew(face_b, win[2][2]),
                          PackedIndexNew(face_b, win[1][2])>>)]

\* ExactGlobe::face_faces_from_template: the hexagon of a window
\* ((a0, b0), (a1, b1), (a2, b2)) is listed as b0, b1, b2, a2, a1, a0
ExactGlobeFaceFaces(m) ==
    LET rows == [k \in 1..m |-> row(m, k - 1)]
        pairs == TupleWindows2(rows)
        iter == Flatten([k \in 1..Len(pairs) |->
                    StepBy2(TupleWindows3(Zip(SubSeq(pairs[k][1], 2, Len(pairs[k][1]) - 1),
                                              pairs[k][2])))])
        prod == CartesianProduct(Range(0, 20), iter)
    IN  [k \in 1..Len(prod) |->
            LET face == prod[k][1]
                win == prod[k][2]
            IN  Hexagon(<<PackedIndexNew(face, win[1][2]),
                          PackedIndexNew(face, win[2][2]),
                          PackedIndexNew(face, win[3][2]),
                          PackedIndexNew(face, win[3][1]),
                          PackedIndexNew(face, win[2][1]),
                          PackedIndexNew(face, win[1][1])>>)]

(***************************************************************************)
(* HexGlobe::vertex_index_to_face_index.  `band` is the arm of `match f`   *)
(* that is taken: 0 for 0..5, 1 for 5..10, 2 for 10..15, 3 for the rest.   *)
(***************************************************************************)
Band(f) == IF f < 5 THEN 0 ELSE IF f < 10 THEN 1 ELSE IF f < 15 THEN 2 ELSE 3

\* (_, 0, 0) => match f
CornerU(f) ==
    CASE Band(f) = 0 -> 0
      [] Band(f) = 1 -> 7 + (f % 5)
      [] Band(f) = 2 -> 2 + (f % 5)
      [] OTHER       -> 1

\* (0, _, 0) => match f
CornerV(f) ==
    CASE Band(f) = 0 -> 2 + ((f + 4) % 5)
      [] Band(f) = 1 -> 2 + (f % 5)
      [] Band(f) = 2 -> 7 + (f % 5)
      [] OTHER       -> 7 + ((f + 1) % 5)

\* (0, 0, _) => match f
CornerW(f) ==
    CASE Band(f) = 0 -> 2 + f
      [] Band(f) = 1 -> 2 + ((f + 4) % 5)
      [] Band(f) = 2 -> 7 + ((f + 1) % 5)
      [] OTHER       -> 7 + (f % 5)

EdgeOffset == SEED_VERTICES * FACES_PER_VERTEX - 1

\* (_, _, 0) => match f
EdgeUV(m, f, vtx) ==
    CASE Band(f) = 0 -> EdgeOffset + ((f + 4) % 5) * FACES_PER_EDGE(m) + vtx.x
      [] Band(f) = 1 -> EdgeOffset + (10 + (f % 5)) * FACES_PER_EDGE(m) + vtx.y
      [] Band(f) = 2 -> EdgeOffset + (10 + (f % 5)) * FACES_PER_EDGE(m) + vtx.x
      [] OTHER       -> EdgeOffset + (25 + (f % 5)) * FACES_PER_EDGE(m) + vtx.y

\* (0, _, _) => match f
EdgeVW(m, f, vtx) ==
    CASE Band(f) = 0 -> EdgeOffset + (5 + f) * FACES_PER_EDGE(m) + vtx.z
      [] Band(f) = 1 -> EdgeOffset + (5 + (f % 5)) * FACES_PER_EDGE(m) + vtx.y
      [] Band(f) = 2 -> EdgeOffset + (20 + (f % 5)) * FACES_PER_EDGE(m) + vtx.z
      [] OTHER       -> EdgeOffset + (20 + (f % 5)) * FACES_PER_EDGE(m) + vtx.y

EdgeWUSameRing(m, f, vtx) ==
    CASE Band(f) = 0 -> EdgeOffset + f * FACES_PER_EDGE(m) + vtx.x
      [] Band(f) = 1 -> EdgeOffset + (15 + (f % 5)) * FACES_PER_EDGE(m) + vtx.z
      [] Band(f) = 2 -> EdgeOffset + (15 + (f % 5)) * FACES_PER_EDGE(m) + vtx.x
      [] OTHER       -> EdgeOffset + (25 + ((f + 4) % 5)) * FACES_PER_EDGE(m) + vtx.z

\* _ => match f   (the wu edge, y = 0)
EdgeWU(m, f, vtx) ==
    CASE Band(f) = 0 -> EdgeOffset + f * FACES_PER_EDGE(m) + vtx.x
      [] Band(f) = 1 -> EdgeOffset + (15 + ((f + 4) % 5)) * FACES_PER_EDGE(m) + vtx.z
      [] Band(f) = 2 -> EdgeOffset + (15 + (f % 5)) * FACES_PER_EDGE(m) + vtx.x
      [] OTHER       -> EdgeOffset + (25 + ((f + 4) % 5)) * FACES_PER_EDGE(m) + vtx.z

InteriorFaceOfSeedFaceZero(m, f, vtx) ==
    LET offset == SEED_VERTICES * FACES_PER_VERTEX
                    + SEED_EDGES * FACES_PER_EDGE(m)
        j == compute_vertex_interior_index_unchecked(m, vtx)
    IN  offset + j

\* the last arm: faces in the interior of seed face f
InteriorFace(m, f, vtx) ==
    LET offset == SEED_VERTICES * FACES_PER_VERTEX
                    + SEED_EDGES * FACES_PER_EDGE(m)
                    + f * FACES_PER_FACE(m)
        j == compute_vertex_interior_index_unchecked(m, vtx)
    IN  offset + j

MatchArmWithoutUV(vtx) ==
    IF vtx.y = 0 /\ vtx.z = 0 THEN "u"
    ELSE IF vtx.x = 0 /\ vtx.z = 0 THEN "v"
    ELSE IF vtx.x = 0 /\ vtx.y = 0 THEN "w"
    ELSE IF vtx.x = 0 THEN "vw"
    ELSE IF vtx.y = 0 THEN "wu"
    ELSE "face"

\* the arm of `match (v.x, v.y, v.z)` that is taken: the first pattern, in
\* source order, that matches
MatchArm(vtx) ==
    IF vtx.y = 0 /\ vtx.z = 0 THEN "u"
    ELSE IF vtx.x = 0 /\ vtx.z = 0 THEN "v"
    ELSE IF vtx.x = 0 /\ vtx.y = 0 THEN "w"
    ELSE IF vtx.z = 0 THEN "uv"
    ELSE IF vtx.x = 0 THEN "vw"
    ELSE IF vtx.y = 0 THEN "wu"
    ELSE "face"

\* the u32 subtraction N - 3 of compute_vertex_interior_index_unchecked
\* goes below zero
InteriorLevelUnderflows(m) == m - 3 < 0

vertex_index_to_face_index(sub, m, f, i) ==
    LET vtx == vertex_denominator(sub, i)
        arm == MatchArm(vtx)
    IN  CASE arm = "u"  -> CornerU(f)
          [] arm = "v"  -> CornerV(f)
          [] arm = "w"  -> CornerW(f)
          [] arm = "uv" -> EdgeUV(m, f, vtx)
          [] arm = "vw" -> EdgeVW(m, f, vtx)
          [] arm = "wu" -> EdgeWU(m, f, vtx)
          [] OTHER      -> InteriorFace(m, f, vtx)

\* the (f, i) arguments of the calls adjacency() makes, in order
AdjacencyCalls(m) ==
    LET edges == vertex_adjacency(m)
    IN  [k \in 1..(Len(edges) * 40) |->
            LET e == edges[((k - 1) \div 40) + 1]
                f == ((k - 1) % 40) \div 2
            IN  <<f, e[((k - 1) % 2) + 1]>>]

\* a call of adjacency() evaluates N - 3 below zero
AdjacencyUnderflows(sub, m) ==
    /\ InteriorLevelUnderflows(m)
    /\ \E k \in 1..Len(AdjacencyCalls(m)) :
          MatchArm(vertex_denominator(sub, AdjacencyCalls(m)[k][2])) = "face"

\* the values adjacency() writes, in the order of its two loops: for every
\* (i, (a, b)) of vertex_adjacency().enumerate() and every f in 0..20, slot
\* i * 20 + f
AdjacencyWrites(sub, m) ==
    LET edges == vertex_adjacency(m)
    IN  [k \in 1..(Len(edges) * 20) |->
            LET e == edges[((k - 1) \div 20) + 1]
                f == (k - 1) % 20
            IN  << vertex_index_to_face_index(sub, m, f, e[1]),
                   vertex_index_to_face_index(sub, m, f, e[2]) >>]

\* HexGlobe::adjacency
adjacency(sub, m) ==
    FillVec(<<0, 0>>, n_edges(m) * 20, AdjacencyWrites(sub, m))

(***************************************************************************)
(* Mesh export                                                             *)
(***************************************************************************)
MeshPentagon(k) == [kind |-> "Pentagon", v |-> [j \in 1..5 |-> k + j - 1]]

MeshHexagon(k) == [kind |-> "Hexagon", v |-> [j \in 1..6 |-> k + j - 1]]

\* impl Default for MeshFace
MeshFaceDefault == [kind |-> "Hexagon", v |-> [j \in 1..6 |-> 0]]

MeshFacesHexagonsFromZero(m) ==
    [k \in 1..FACES(m) |->
        IF k <= PENTAGONS
        THEN MeshPentagon((k - 1) * 5)
        ELSE MeshHexagon((k - 1 - PENTAGONS) * 6)]

\* HexGlobe::mesh_faces
mesh_faces(m) ==
    [k \in 1..FACES(m) |->
        IF k <= PENTAGONS
        THEN MeshPentagon((k - 1) * 5)
        ELSE MeshHexagon(PENTAGONS * 5 + (k - 1 - PENTAGONS) * 6)]

FanAsStrip(face) ==
    LET c == face.v
    IN  IF face.kind = "Pentagon"
        THEN << c[1], c[2], c[3],  c[2], c[3], c[4],  c[3], c[4], c[5] >>
        ELSE << c[1], c[2], c[3],  c[2], c[3], c[4],  c[3], c[4], c[5],
                c[4], c[5], c[6] >>

\* the slice one face contributes in mesh_triangles
Fan(face) ==
    LET c == face.v
    IN  IF face.kind = "Pentagon"
        THEN << c[1], c[2], c[3],  c[1], c[3], c[4],  c[1], c[4], c[5] >>
        ELSE << c[1], c[2], c[3],  c[1], c[3], c[4],  c[1], c[4], c[5],
                c[1], c[5], c[6] >>

MeshTrianglesWrites(mfaces) ==
    Flatten([k \in 1..Len(mfaces) |-> Fan(mfaces[k])])

\* HexGlobe::mesh_triangles
mesh_triangles(m, mfaces) ==
    FillVec(0, MESH_TRIANGLES(m) * 3, MeshTrianglesWrites(mfaces))

(***************************************************************************)
(* Placement.  Points of the sphere are kept symbolic: a point records how *)
(* it was obtained (which call on which arguments), never a coordinate.    *)
(***************************************************************************)
\* Vec3::ZERO, the placeholder of vec![Vec3::ZERO; n]
Vec3Zero == <<"zero">>

\* slerp_3(c.x, face.u, c.y, face.v, c.z, face.w) * radius, where c is
\* `weights` divided by `over`
SlerpPoint(weights, over, corners, radius) ==
    <<"slerp", weights, over, corners, radius>>

\* s.mul_vec3(point)
RotatedPoint(s, point) == <<"rotated", s, point>>

\* r.unwrap_or(1.0)
UnwrapOrOne(r) == IF r.some THEN r.value ELSE 1

\* SubdividedTriangle::triangles: the corners of every triangle as triples
triangles(sub, m) ==
    [k \in 1..n_triangles(m) |->
        Triangle(sub.vertices[sub.triangles[k].u + 1],
                 sub.vertices[sub.triangles[k].v + 1],
                 sub.vertices[sub.triangles[k].w + 1])]

\* vec![vec![Vec3::ZERO; n]; 20]
CentroidsInit(m) == [f \in 1..20 |-> [i \in 1..n_triangles(m) |-> Vec3Zero]]

\* the first loop of centroids: for (f, face) in base_faces(), for (i, t) in
\* triangles().enumerate()
RECURSIVE CentroidsBaseLoop(_, _, _, _, _, _)
CentroidsBaseLoop(vertices, sub, bases, m, radius, k) ==
    IF k > Len(bases) THEN vertices
    ELSE LET f == bases[k][1]
             ts == triangles(sub, m)
             filled == [i \in 1..Len(vertices[f + 1]) |->
                          IF i <= Len(ts)
                          THEN SlerpPoint(IVec3Add(IVec3Add(ts[i].u, ts[i].v), ts[i].w),
                                          3 * m, bases[k][2], radius)
                          ELSE vertices[f + 1][i]]
         IN  CentroidsBaseLoop([vertices EXCEPT ![f + 1] = filled],
                               sub, bases, m, radius, k + 1)

\* the second loop of centroids: for (f, base, s) in symmetries(), for i in 0..n
RECURSIVE CentroidsSymmetryLoop(_, _, _, _)
CentroidsSymmetryLoop(vertices, syms, m, k) ==
    IF k > Len(syms) THEN vertices
    ELSE LET f == syms[k][1]
             base == syms[k][2]
             filled == [i \in 1..n_triangles(m) |->
                          RotatedPoint(syms[k][3], vertices[base + 1][i])]
         IN  CentroidsSymmetryLoop([vertices EXCEPT ![f + 1] = filled],
                                   syms, m, k + 1)

CentroidsSymmetriesFirst(sub, sd, m, r) ==
    CentroidsBaseLoop(
        CentroidsSymmetryLoop(CentroidsInit(m), symmetries(sd), m, 1),
        sub, base_faces(sd), m, UnwrapOrOne(r), 1)

\* HexGlobe::centroids
centroids(sub, sd, m, r) ==
    CentroidsSymmetryLoop(
        CentroidsBaseLoop(CentroidsInit(m), sub, base_faces(sd), m, UnwrapOrOne(r), 1),
        symmetries(sd), m, 1)

\* [0.0; 3], the placeholder of the vertex and normal buffers
ArrayZero == <<"array", Vec3Zero>>

\* Vec3::to_array
ToArray(point) == <<"array", point>>

\* Vec3::from([f32; 3])
FromArray(a) == a[2]

\* the entries one face contributes in mesh_vertices
FaceVertices(face, cents) ==
    [j \in 1..Len(face.v) |->
        ToArray(cents[PackedFace(face.v[j]) + 1][PackedSubdivision(face.v[j]) + 1])]

\* a lookup centroids[i.face()][i.subdivision()] of mesh_vertices is out of
\* range, or a slice vertices[n..(n + 5)] / [n..(n + 6)] is
MeshVerticesPanics(fs, cents, m) ==
    \/ \E k \in 1..Len(fs) : \E j \in 1..Len(fs[k].v) :
          \/ PackedFace(fs[k].v[j]) >= Len(cents)
          \/ PackedSubdivision(fs[k].v[j]) >= Len(cents[PackedFace(fs[k].v[j]) + 1])
    \/ IndexOutOfBounds(MESH_VERTICES(m), Flatten([k \in 1..Len(fs) |-> fs[k].v]))

\* HexGlobe::mesh_vertices
mesh_vertices(fs, cents, m) ==
    FillVec(ArrayZero, MESH_VERTICES(m),
            Flatten([k \in 1..Len(fs) |-> FaceVertices(fs[k], cents)]))

\* (v - u).cross(w - u).normalize().to_array() of a pentagon block
PentagonNormal(a, b, c) == <<"array", <<"cross", FromArray(a), FromArray(b), FromArray(c)>> >>

\* (v + u + w).normalize().to_array() of a hexagon block
HexagonNormal(a, b, c) == <<"array", <<"sum", FromArray(a), FromArray(b), FromArray(c)>> >>

BlockWrittenOneShort(size) == size - 1

\* `for k in 0..5` / `for k in 0..6`: the entries of a block that are written
BlockWritten(size) == size

\* assert_eq!(vertices.len(), Self::MESH_VERTICES, ..) fails
MeshNormalsPanics(vertices, m) == Len(vertices) # MESH_VERTICES(m)

\* HexGlobe::mesh_normals, past its assertion
mesh_normals(vertices, m) ==
    [k \in 1..MESH_VERTICES(m) |->
        LET p == k - 1
        IN  IF p < MESH_PENTAGON_VERTICES
            THEN LET i == (p \div 5) * 5
                 IN  IF p - i < BlockWritten(5)
                     THEN PentagonNormal(vertices[i + 1], vertices[i + 3], vertices[i + 4])
                     ELSE ArrayZero
            ELSE LET i == MESH_PENTAGON_VERTICES
                              + ((p - MESH_PENTAGON_VERTICES) \div 6) * 6
                 IN  IF p - i < BlockWritten(6)
                     THEN HexagonNormal(vertices[i + 1], vertices[i + 3], vertices[i + 5])
                     ELSE ArrayZero]

(***************************************************************************)
(* slerp_n  (src/src/interpolation/slerp.rs), on points of one coordinate   *)
(* axis: every point of a call is +e or -e for e one of Vec3::X, Vec3::Y,  *)
(* Vec3::Z, and a weight is a multiple of 1/WeightUnit.  A vector c*e is    *)
(* kept as the integer c * WeightUnit.  On these inputs, and on no other   *)
(* axis, every f32 operation of slerp_n is exact: the components are 0 or  *)
(* small multiples of 1/WeightUnit.                                        *)
(***************************************************************************)
Axes == {"x", "y", "z"}

\* sign * Vec3::X, sign * Vec3::Y or sign * Vec3::Z
AxisPoint(axis, sign) ==
    [x |-> IF axis = "x" THEN sign ELSE 0,
     y |-> IF axis = "y" THEN sign ELSE 0,
     z |-> IF axis = "z" THEN sign ELSE 0]

\* the coordinates of the points of a call along the axis they lie on
PointSigns(axis, points) == [k \in 1..Len(points) |-> points[k][axis]]

\* the value of 0.0 * (1.0 / 0.0) and of everything computed from it
NaN == [nan |-> TRUE, c |-> 0]

AxisVec(c) == [nan |-> FALSE, c |-> c]

\* w.iter().cloned().tree_reduce(|a, b| a + b)
RECURSIVE TreeReduceSum(_)
TreeReduceSum(ws) ==
    IF Len(ws) = 0 THEN 0 ELSE Head(ws) + TreeReduceSum(Tail(ws))

\* debug_assert!((total_weight.unwrap() - 1.0) <= f32::EPSILON, ..) passes;
\* f32::EPSILON is less than one weight step, so the test is total - 1 <= 0
DebugAssertWeights(ws) == TreeReduceSum(ws) - WeightUnit <= 0

\* sum of w_i * p_i for p_i = sign_i * e, e a coordinate axis: each product
\* and each partial sum is a multiple of 1/WeightUnit on that axis, so the
\* f32 sum is the exact sum
WeightedSum(ws, signs) ==
    AxisVec(TreeReduceSum([k \in 1..Len(ws) |-> ws[k] * signs[k]]))

\* Vec3::normalize: self * (1.0 / self.length()), which is 0 * inf for the
\* zero vector; for c * e on a coordinate axis the length is |c| and
\* c * (1 / |c|) rounds to +-1 for the values of c within MaxWeight
Normalize(vec) ==
    IF vec.nan \/ vec.c = 0 THEN NaN
    ELSE AxisVec(IF vec.c > 0 THEN WeightUnit ELSE -WeightUnit)

\* sphere_ln(q, p) for p = +-e: the angle r is 0 or pi, and k multiplies
\* p - q * cos(r), which is the zero vector in both cases
sphere_ln(q, sign) ==
    IF q.nan THEN NaN
    ELSE LET cosr == IF q.c = sign * WeightUnit THEN 1 ELSE -1
         IN  AxisVec(sign * WeightUnit - q.c * cosr)

\* sphere_exp(q, dp): q * cos(|dp|) + k * dp, with k = 1 when |dp| = 0
sphere_exp(q, dp) ==
    IF q.nan \/ dp.nan THEN NaN ELSE AxisVec(q.c + dp.c)

\* u of one iteration: sum of w_i * sphere_ln(q, p_i)
LoopU(q, ws, signs) ==
    IF q.nan THEN NaN
    ELSE AxisVec(TreeReduceSum([k \in 1..Len(ws) |->
                     TruncDiv(ws[k] * sphere_ln(q, signs[k]).c, WeightUnit)]))

\* u.length() < 1.0e-6; every comparison with NaN is false
BelowTolerance(vec) == ~vec.nan /\ vec.c = 0

(***************************************************************************)
(* The state machine.  The level N is a compile-time parameter, chosen     *)
(* once; the two constructors are the entry points; every other method is  *)
(* a read-only query of the constructed value.                             *)
(***************************************************************************)
Levels == 0..MaxN

SeedFaceIds == 0..(SEED_FACES - 1)

VertexIndices(m) == 0..(n_vertices(m) - 1)

Call(name) == [name |-> name]

Init ==
    /\ n \in Levels
    /\ pc = "start"
    /\ subdivision = NoSubdivision
    /\ seed = <<>>
    /\ faces = <<>>
    /\ op = Call("none")
    /\ ret = <<>>

\* `N as usize - 1` (FACES_PER_EDGE) cannot be evaluated for N = 0
FacesPerEdgeOverflows(m) == m - 1 < 0

\* SubdividedTriangle::<N>::new()
NewSubdividedTriangle ==
    /\ pc = "start"
    /\ op' = Call("SubdividedTriangle::new")
    /\ IF SubdividedTriangleNewPanics(n) \/ ~SubdividedTriangleNewInRange(n)
       THEN /\ pc' = "panicked"
            /\ UNCHANGED subdivision
       ELSE /\ pc' = "lattice"
            /\ subdivision' = SubdividedTriangleNew(n)
    /\ ret' = <<>>
    /\ UNCHANGED <<n, seed, faces>>

\* HexGlobe::<N>::new()
NewHexGlobe ==
    /\ pc = "start"
    /\ op' = Call("HexGlobe::new")
    /\ IF \/ SubdividedTriangleNewPanics(n)
          \/ ~SubdividedTriangleNewInRange(n)
          \/ FacesPerEdgeOverflows(n)
          \/ IndexOutOfBounds(FACES(n), faces_from_template(n))
       THEN /\ pc' = "panicked"
            /\ UNCHANGED <<subdivision, seed, faces>>
       ELSE /\ pc' = "globe"
            /\ subdivision' = SubdividedTriangleNew(n)
            /\ seed' = SeedIcosahedron
            /\ faces' = FillVec(ExactFaceDefault, FACES(n), faces_from_template(n))
    /\ ret' = <<>>
    /\ UNCHANGED n

\* ExactGlobe::<N>::new(): the older lattice constructor has the same
\* assertion and collects the same vertices and triangles, and the faces are
\* collected from faces_from_template (vertex, edge, then face faces)
NewExactGlobe ==
    /\ pc = "start"
    /\ op' = Call("ExactGlobe::new")
    /\ IF SubdividedTriangleNewPanics(n)
       THEN /\ pc' = "panicked"
            /\ UNCHANGED <<subdivision, seed, faces>>
       ELSE /\ pc' = "exact_globe"
            /\ subdivision' = SubdividedTriangleNew(n)
            /\ seed' = SeedIcosahedron
            /\ faces' = vertex_faces_from_template(n)
                            \o ExactGlobeEdgeFaces(n)
                            \o ExactGlobeFaceFaces(n)
    /\ ret' = <<>>
    /\ UNCHANGED n

\* HexGlobe::vertex_faces_from_template(&template)
VertexFacesFromTemplate ==
    /\ pc = "lattice"
    /\ op' = Call("vertex_faces_from_template")
    /\ ret' = vertex_faces_from_template(n)
    /\ UNCHANGED <<n, pc, subdivision, seed, faces>>

\* HexGlobe::edge_faces_from_template(&template)
EdgeFacesFromTemplate ==
    /\ pc = "lattice"
    /\ op' = Call("edge_faces_from_template")
    /\ ret' = edge_faces_from_template(n)
    /\ UNCHANGED <<n, pc, subdivision, seed, faces>>

\* HexGlobe::face_faces_from_template(&template)
FaceFacesFromTemplate ==
    /\ pc = "lattice"
    /\ op' = Call("face_faces_from_template")
    /\ ret' = face_faces_from_template(n)
    /\ UNCHANGED <<n, pc, subdivision, seed, faces>>

\* globe.vertex_index_to_face_index(f, i)
VertexIndexToFaceIndex ==
    /\ pc = "globe"
    /\ \E f \in SeedFaceIds, i \in VertexIndices(n) :
          /\ op' = [name |-> "vertex_index_to_face_index", f |-> f, i |-> i]
          /\ IF /\ InteriorLevelUnderflows(n)
                /\ MatchArm(vertex_denominator(subdivision, i)) = "face"
             THEN pc' = "panicked" /\ ret' = <<>>
             ELSE pc' = pc /\ ret' = vertex_index_to_face_index(subdivision, n, f, i)
    /\ UNCHANGED <<n, subdivision, seed, faces>>

\* globe.adjacency()
Adjacency ==
    /\ pc = "globe"
    /\ op' = Call("adjacency")
    /\ IF \/ IndexOutOfBounds(n_edges(n) * 20, AdjacencyWrites(subdivision, n))
          \/ AdjacencyUnderflows(subdivision, n)
       THEN pc' = "panicked" /\ ret' = <<>>
       ELSE pc' = pc /\ ret' = adjacency(subdivision, n)
    /\ UNCHANGED <<n, subdivision, seed, faces>>

\* globe.mesh_faces()
MeshFaces ==
    /\ pc = "globe"
    /\ op' = Call("mesh_faces")
    /\ ret' = mesh_faces(n)
    /\ UNCHANGED <<n, pc, subdivision, seed, faces>>

\* globe.mesh_triangles(&globe.mesh_faces())
MeshTriangles ==
    /\ pc = "globe"
    /\ op' = Call("mesh_triangles")
    /\ IF IndexOutOfBounds(MESH_TRIANGLES(n) * 3, MeshTrianglesWrites(mesh_faces(n)))
       THEN pc' = "panicked" /\ ret' = <<>>
       ELSE pc' = pc /\ ret' = mesh_triangles(n, mesh_faces(n))
    /\ UNCHANGED <<n, subdivision, seed, faces>>

\* globe.seed.base_faces()
BaseFaces ==
    /\ pc = "globe"
    /\ op' = Call("base_faces")
    /\ ret' = base_faces(seed)
    /\ UNCHANGED <<n, pc, subdivision, seed, faces>>

\* globe.seed.symmetries()
Symmetries ==
    /\ pc = "globe"
    /\ op' = Call("symmetries")
    /\ ret' = symmetries(seed)
    /\ UNCHANGED <<n, pc, subdivision, seed, faces>>

\* the radius arguments tried: None and Some(2.0)
Radii == {None, Some(2)}

\* globe.centroids(r)
Centroids ==
    /\ pc = "globe"
    /\ \E r \in Radii :
          /\ op' = [name |-> "centroids", r |-> r]
          /\ ret' = centroids(subdivision, seed, n, r)
    /\ UNCHANGED <<n, pc, subdivision, seed, faces>>

\* globe.mesh_vertices(&globe.centroids(None))
MeshVertices ==
    /\ pc = "globe"
    /\ op' = Call("mesh_vertices")
    /\ LET cents == centroids(subdivision, seed, n, None)
       IN  IF MeshVerticesPanics(faces, cents, n)
           THEN pc' = "panicked" /\ ret' = <<>>
           ELSE pc' = pc /\ ret' = mesh_vertices(faces, cents, n)
    /\ UNCHANGED <<n, subdivision, seed, faces>>

\* globe.mesh_normals(&vertices), on the output of mesh_vertices and on that
\* output with its last entry missing
MeshNormals ==
    /\ pc = "globe"
    /\ op.name = "mesh_vertices"
    /\ \E short \in BOOLEAN :
          LET vertices == IF short THEN SubSeq(ret, 1, Len(ret) - 1) ELSE ret
          IN  /\ op' = [name |-> "mesh_normals", vertices |-> vertices]
              /\ IF MeshNormalsPanics(vertices, n)
                 THEN pc' = "panicked" /\ ret' = <<>>
                 ELSE pc' = pc /\ ret' = mesh_normals(vertices, n)
    /\ UNCHANGED <<n, subdivision, seed, faces>>

\* the triples handed to vertex_index: every component in -1..N+1
Coordinates(m) == (-1)..(m + 1)

\* subdivision.vertex_index(v)
VertexIndex ==
    /\ pc = "lattice"
    /\ \E x, y, z \in Coordinates(n) :
          /\ op' = [name |-> "vertex_index", v |-> IVec3(x, y, z)]
          /\ ret' = compute_vertex_index(n, IVec3(x, y, z))
    /\ UNCHANGED <<n, pc, subdivision, seed, faces>>

\* subdivision.vertex_interior_index(v) for a vertex of the lattice
VertexInteriorIndex ==
    /\ pc = "lattice"
    /\ \E k \in 1..Len(subdivision.vertices) :
          /\ op' = [name |-> "vertex_interior_index", v |-> subdivision.vertices[k]]
          /\ ret' = compute_vertex_interior_index(n, subdivision.vertices[k])
    /\ UNCHANGED <<n, pc, subdivision, seed, faces>>

\* subdivision.vertex_adjacency().collect()
VertexAdjacency ==
    /\ pc = "lattice"
    /\ op' = Call("vertex_adjacency")
    /\ ret' = vertex_adjacency(n)
    /\ UNCHANGED <<n, pc, subdivision, seed, faces>>

\* the row numbers tried: every row of the lattice and two beyond it
RowNumbers(m) == 0..(m + 1)

\* subdivision.row(i).collect_vec()
Row ==
    /\ pc = "lattice"
    /\ \E i \in RowNumbers(n) :
          /\ op' = [name |-> "row", i |-> i]
          /\ ret' = row(n, i)
    /\ UNCHANGED <<n, pc, subdivision, seed, faces>>

\* subdivision.uv() / .vw() / .wu(), of either copy of the lattice
EdgeRun ==
    /\ pc = "lattice"
    /\ \E edge \in {"uv", "vw", "wu"},
          module \in {"subdivided_triangle", "subdivision::subdivided_triangle"} :
          /\ op' = [name |-> "edge_run", edge |-> edge, module |-> module]
          /\ ret' = IF module = "subdivided_triangle"
                    THEN CASE edge = "uv" -> uv(n)
                           [] edge = "vw" -> vw(n)
                           [] edge = "wu" -> wu(n)
                    ELSE CASE edge = "uv" -> SubdivisionUV(n)
                           [] edge = "vw" -> SubdivisionVW(n)
                           [] edge = "wu" -> SubdivisionWU(n)
    /\ UNCHANGED <<n, pc, subdivision, seed, faces>>

\* subdivision.u() / .v() / .w()
CornerTriangle ==
    /\ pc = "lattice"
    /\ \E corner \in {"u", "v", "w"} :
          /\ op' = [name |-> "corner_triangle", corner |-> corner]
          /\ ret' = CASE corner = "u" -> u(n)
                      [] corner = "v" -> v(n)
                      [] corner = "w" -> w(n)
    /\ UNCHANGED <<n, pc, subdivision, seed, faces>>

Next ==
    \/ NewSubdividedTriangle
    \/ NewHexGlobe
    \/ NewExactGlobe
    \/ VertexFacesFromTemplate
    \/ EdgeFacesFromTemplate
    \/ FaceFacesFromTemplate
    \/ VertexIndexToFaceIndex
    \/ Adjacency
    \/ MeshFaces
    \/ MeshTriangles
    \/ BaseFaces
    \/ Symmetries
    \/ VertexIndex
    \/ VertexInteriorIndex
    \/ VertexAdjacency
    \/ Centroids
    \/ MeshVertices
    \/ MeshNormals
    \/ Row
    \/ EdgeRun
    \/ CornerTriangle

Spec == Init /\ [][Next]_vars

(***************************************************************************)
(* PackedIndex on its own: its constructor and accessors are pure, so they *)
(* are exercised from inputs drawn at Init.                                *)
(***************************************************************************)
PackedInit ==
    /\ n = 1
    /\ pc = "start"
    /\ subdivision = NoSubdivision
    /\ seed = <<>>
    /\ faces = <<>>
    /\ \E face \in 0..MaxPackedFace, sub \in 0..MaxPackedSub :
          op = [name |-> "input", face |-> face, subdivision |-> sub]
    /\ ret = <<>>

\* PackedIndex::new(face, subdivision)
PackedNew ==
    /\ op.name = "input"
    /\ op' = [op EXCEPT !.name = "PackedIndex::new"]
    /\ ret' = PackedIndexNew(op.face, op.subdivision)
    /\ UNCHANGED <<n, pc, subdivision, seed, faces>>

\* (key.face(), key.subdivision()) of the key just built
PackedUnpack ==
    /\ op.name = "PackedIndex::new"
    /\ op' = [op EXCEPT !.name = "unpack"]
    /\ ret' = <<PackedFace(ret), PackedSubdivision(ret)>>
    /\ UNCHANGED <<n, pc, subdivision, seed, faces>>

PackedNext == PackedNew \/ PackedUnpack

PackedSpec == PackedInit /\ [][PackedNext]_vars

(***************************************************************************)
(* slerp_n on its own.  pc follows the function: "slerp_n" at entry,       *)
(* "slerp_loop" at the head of its loop, "returned" or "panicked" at exit. *)
(* op holds the arguments and the build options, ret the locals q and u.   *)
(***************************************************************************)
Weights == 0..MaxWeight

Signs == {1, -1}

SlerpInit ==
    /\ n = 1
    /\ subdivision = NoSubdivision
    /\ seed = <<>>
    /\ faces = <<>>
    /\ pc = "slerp_n"
    /\ \E w1, w2, w3 \in Weights, s1, s2, s3 \in Signs, axis \in Axes,
          debug, glam_assert \in BOOLEAN :
          op = [name |-> "slerp_n", w |-> <<w1, w2, w3>>, axis |-> axis,
                p |-> <<AxisPoint(axis, s1), AxisPoint(axis, s2), AxisPoint(axis, s3)>>,
                debug |-> debug, glam_assert |-> glam_assert]
    /\ ret = <<>>

\* lines 40-49: the assertions (debug builds only) and the first estimate q;
\* glam built with its glam-assert feature panics in normalize() on a vector
\* of length zero
SlerpEnter ==
    /\ pc = "slerp_n"
    /\ IF \/ op.debug /\ ~DebugAssertWeights(op.w)
          \/ op.glam_assert /\ WeightedSum(op.w, PointSigns(op.axis, op.p)).c = 0
       THEN pc' = "panicked" /\ ret' = ret
       ELSE /\ pc' = "slerp_loop"
            /\ ret' = [q |-> Normalize(WeightedSum(op.w, PointSigns(op.axis, op.p)))]
    /\ UNCHANGED <<n, subdivision, seed, faces, op>>

\* lines 51-63: one pass of the loop
SlerpIterate ==
    /\ pc = "slerp_loop"
    /\ LET uu == LoopU(ret.q, op.w, PointSigns(op.axis, op.p))
       IN  /\ ret' = [q |-> sphere_exp(ret.q, uu), u |-> uu]
           /\ pc' = IF BelowTolerance(uu) THEN "returned" ELSE "slerp_loop"
    /\ UNCHANGED <<n, subdivision, seed, faces, op>>

SlerpNext == SlerpEnter \/ SlerpIterate

\* the loop keeps running while it has not returned
SlerpSpec == SlerpInit /\ [][SlerpNext]_vars /\ WF_vars(SlerpNext)

(***************************************************************************)
(* Vocabulary of the properties.                                           *)
(***************************************************************************)
Corners(face) == face.v

\* the corners of a face taken two at a time, cyclically, in stored order
DirectedEdges(face) ==
    {<<face.v[k], face.v[(k % Len(face.v)) + 1]>> : k \in 1..Len(face.v)}

UndirectedEdges(face) == {{e[1], e[2]} : e \in DirectedEdges(face)}

\* the brute-force oracle: unordered pairs of distinct face indices whose
\* faces have an edge in common
SharedEdgePairs(fs) ==
    LET E == [k \in 1..Len(fs) |-> UndirectedEdges(fs[k])]
    IN  {{p[1] - 1, p[2] - 1} :
            p \in {q \in (1..Len(fs)) \X (1..Len(fs)) :
                      q[1] < q[2] /\ E[q[1]] \cap E[q[2]] # {}}}

\* an edge list read as a set of unordered pairs
UnorderedPairs(list) == {{list[k][1], list[k][2]} : k \in 1..Len(list)}

SeedFacesOf(face) == {PackedFace(face.v[k]) : k \in 1..Len(face.v)}

CountKind(fs, kind) == Cardinality({k \in 1..Len(fs) : fs[k].kind = kind})

AllOfKind(fs, kind) == \A k \in 1..Len(fs) : fs[k].kind = kind

Built == pc = "globe" /\ op.name = "HexGlobe::new"

EdgeFaceCount(m) == 30 * (m - 1)

FaceFaceCount(m) == 20 * (((m - 1) * (m - 2)) \div 2)

\* C1: the unordered pairs adjacency() returns are exactly the pairs of
\* distinct faces of the face list that share an edge (sound and complete).
C1_AdjacencySoundAndComplete ==
    (op.name = "adjacency" /\ pc = "globe") =>
        UnorderedPairs(ret) = SharedEdgePairs(faces)

C1_Witness ==
    /\ op.name = "adjacency"
    /\ pc = "globe"
    /\ n = 3
    /\ \E k \in 1..Len(ret) :
          /\ ret[k][1] >= 12 + EdgeFaceCount(n)
          /\ ret[k][2] >= 12
          /\ ret[k][2] < 12 + EdgeFaceCount(n)

\* C2: the list adjacency() returns holds no edge twice, neither as the same
\* ordered pair nor in the other orientation.
C2_AdjacencyHasNoDuplicate ==
    (op.name = "adjacency" /\ pc = "globe") =>
        \A i, j \in 1..Len(ret) :
            i < j => /\ ret[i] # ret[j]
                     /\ ret[i] # <<ret[j][2], ret[j][1]>>

\* C3: construction yields 12 + 30(N-1) + 20(N-1)(N-2)/2 faces, the generator
\* yields exactly that many items, no slot keeps the placeholder, and N = 2
\* gives 12 pentagons + 30 hexagons with no face-faces.
C3_FaceCount ==
    pc = "globe" =>
        /\ Len(faces) = 12 + EdgeFaceCount(n) + FaceFaceCount(n)
        /\ Len(faces_from_template(n)) = Len(faces)
        /\ \A k \in 1..Len(faces) : faces[k] # ExactFaceDefault
        /\ n = 2 => /\ CountKind(faces, "Pentagon") = 12
                    /\ CountKind(faces, "Hexagon") = 30
                    /\ Len(faces) = 42
                    /\ Len(face_faces_from_template(n)) = 0

C3_Witness ==
    /\ Built
    /\ n = 4
    /\ Len(faces) = 162
    /\ Len(face_faces_from_template(n)) = 60

\* C4: for N = 1 there are 12 pentagons and 0 hexagons, and adjacency()
\* returns 30 adjacency pairs.  (The mesh-triangle count of the scenario is
\* MESH_TRIANGLES(1), which is 12 * 3 = 36.)
C4_SeedScenario ==
    (n = 1 /\ pc = "globe") =>
        /\ CountKind(faces, "Pentagon") = 12
        /\ CountKind(faces, "Hexagon") = 0
        /\ op.name = "adjacency" => Len(ret) = 30

\* C5: the vertex-face generator emits exactly 12 faces, all pentagons; the
\* edge-face generator exactly 30(N-1), all hexagons; the face-face generator
\* exactly 20(N-1)(N-2)/2, all hexagons.
C5_GeneratorKindsAndCounts ==
    /\ op.name = "vertex_faces_from_template" =>
          Len(ret) = 12 /\ AllOfKind(ret, "Pentagon")
    /\ op.name = "edge_faces_from_template" =>
          Len(ret) = EdgeFaceCount(n) /\ AllOfKind(ret, "Hexagon")
    /\ op.name = "face_faces_from_template" =>
          Len(ret) = FaceFaceCount(n) /\ AllOfKind(ret, "Hexagon")

C5_Witness ==
    /\ op.name = "edge_faces_from_template"
    /\ n = 4
    /\ Len(ret) = 90

\* a face list in which every corner pair shared by two faces is traversed
\* p then q by one of them and q then p by the other
ConsistentlyWound(fs) ==
    LET D == [k \in 1..Len(fs) |-> DirectedEdges(fs[k])]
    IN  \A i, j \in 1..Len(fs) :
            i # j => \A e \in D[i] :
                (e \in D[j] \/ <<e[2], e[1]>> \in D[j]) =>
                    (<<e[2], e[1]>> \in D[j] /\ e \notin D[j])

BuiltExact == pc = "exact_globe" /\ op.name = "ExactGlobe::new"

\* C6: every edge shared by two faces is traversed in opposite directions by
\* the two faces (consistent winding over the whole polyhedron), in the face
\* list of HexGlobe::new and in that of ExactGlobe::new.
C6_ConsistentWinding ==
    (Built \/ BuiltExact) => ConsistentlyWound(faces)

\* C7: base_faces() returns 5 entries (id, 3 corners), symmetries() returns
\* 15 entries (id, baseId, rotation); the two id sets are disjoint and
\* together cover 0..19.
C7_SeedBaseAndDerived ==
    LET ids(list) == {list[k][1] : k \in 1..Len(list)}
    IN  /\ op.name = "base_faces" =>
              /\ Len(ret) = 5
              /\ \A k \in 1..Len(ret) :
                    /\ Len(ret[k]) = 2
                    /\ DOMAIN ret[k][2] = {"u", "v", "w"}
              /\ Cardinality(ids(ret)) = 5
              /\ ids(ret) \cap ids(symmetries(seed)) = {}
              /\ ids(ret) \cup ids(symmetries(seed)) = 0..19
        /\ op.name = "symmetries" =>
              /\ Len(ret) = 15
              /\ \A k \in 1..Len(ret) : Len(ret[k]) = 3
              /\ Cardinality(ids(ret)) = 15
              /\ ids(ret) \cap ids(base_faces(seed)) = {}
              /\ ids(ret) \cup ids(base_faces(seed)) = 0..19

\* C8: for face < 32, PackedIndex::new(face, s).face() = face and
\* .subdivision() = s, and no other (face, s) pair gives the same key.
C8_PackedRoundTrip ==
    (op.name = "unpack" /\ op.face < 32) =>
        /\ ret = <<op.face, op.subdivision>>
        /\ \A f2 \in 0..31, s2 \in 0..MaxPackedSub :
              PackedIndexNew(f2, s2) = PackedIndexNew(op.face, op.subdivision)
                  => (f2 = op.face /\ s2 = op.subdivision)

C8_Witness ==
    /\ op.name = "unpack"
    /\ op.face = 31
    /\ op.subdivision = 37
    /\ ret = <<31, 37>>

\* C9: level N = 0 is rejected: no lattice and no face list is ever produced
\* for it.
C9_LevelZeroRejected ==
    n = 0 =>
        /\ pc \in {"start", "panicked"}
        /\ subdivision = NoSubdivision
        /\ faces = <<>>

C9_Witness ==
    /\ n = 0
    /\ pc = "panicked"
    /\ op.name = "SubdividedTriangle::new"

\* C10: faces are stored vertex-faces first, then edge-faces, then face-faces:
\* indices 0..11 are the pentagons, every later face is a hexagon, the edge
\* hexagons (corners on two seed faces) fill 12..12+30(N-1)-1 and the face
\* hexagons follow, grouped by seed face in ascending order.
C10_FaceOrder ==
    pc = "globe" =>
        /\ Len(faces) >= 12
        /\ \A k \in 1..Len(faces) :
              LET i == k - 1
                  firstFaceFace == 12 + EdgeFaceCount(n)
              IN  /\ i < 12 => faces[k].kind = "Pentagon"
                  /\ i >= 12 => faces[k].kind = "Hexagon"
                  /\ (i >= 12 /\ i < firstFaceFace) =>
                        Cardinality(SeedFacesOf(faces[k])) = 2
                  /\ i >= firstFaceFace =>
                        SeedFacesOf(faces[k]) =
                            {(i - firstFaceFace) \div (((n - 1) * (n - 2)) \div 2)}

C10_Witness ==
    /\ Built
    /\ n = 4
    /\ SeedFacesOf(faces[12 + 90 + 3 + 1]) = {1}
    /\ Cardinality(SeedFacesOf(faces[12 + 90])) = 2

\* the lattice edges: the three sides of every triangle, as unordered pairs
TriangleEdges(ts) ==
    UNION {{{ts[k].u, ts[k].v}, {ts[k].v, ts[k].w}, {ts[k].w, ts[k].u}} :
              k \in 1..Len(ts)}

\* 0-based position of a triple in a vertex list
PositionIn(vs, vtx) == (CHOOSE k \in 1..Len(vs) : vs[k] = vtx) - 1

IsInterior(vtx) == vtx.x >= 1 /\ vtx.y >= 1 /\ vtx.z >= 1

\* C14: the closed form x(2(N+1)+1-x)/2 + y is the position of (x,y,z) in the
\* vertex list, which ascends lexicographically on (x,y) and has
\* (N+1)(N+2)/2 entries; vertex_index is None for a triple with a negative
\* component or a sum other than N and Some(closed form) otherwise.
C14_VertexIndexClosedForm ==
    pc = "lattice" =>
        LET vs == subdivision.vertices
        IN  /\ Len(vs) = ((n + 1) * (n + 2)) \div 2
            /\ \A k \in 1..(Len(vs) - 1) :
                  \/ vs[k].x < vs[k + 1].x
                  \/ vs[k].x = vs[k + 1].x /\ vs[k].y < vs[k + 1].y
            /\ op.name = "vertex_index" =>
                  LET c == op.v
                      closed == ((c.x * (2 * (n + 1) + 1 - c.x)) \div 2) + c.y
                  IN  IF c.x >= 0 /\ c.y >= 0 /\ c.z >= 0 /\ c.x + c.y + c.z = n
                      THEN /\ ret = Some(closed)
                           /\ vs[closed + 1] = c
                      ELSE ret = None

C14_Witness ==
    /\ pc = "lattice"
    /\ n = 4
    /\ op.name = "vertex_index"
    /\ op.v = IVec3(2, 1, 1)
    /\ ret = Some(10)

\* C15: vertex_adjacency() yields exactly the edges of the lattice triangles,
\* each once (3N(N+1)/2 pairs), and every pair joins two vertices whose
\* triples differ by +1 in one component and -1 in another.
C15_VertexAdjacencyIsLatticeEdges ==
    (pc = "lattice" /\ op.name = "vertex_adjacency") =>
        /\ UnorderedPairs(ret) = TriangleEdges(subdivision.triangles)
        /\ Len(ret) = (3 * n * (n + 1)) \div 2
        /\ Cardinality(UnorderedPairs(ret)) = Len(ret)
        /\ \A k \in 1..Len(ret) :
              LET d == IVec3Sub(vertex_denominator(subdivision, ret[k][1]),
                                vertex_denominator(subdivision, ret[k][2]))
              IN  /\ {d.x, d.y, d.z} = {-1, 0, 1}
                  /\ d.x + d.y + d.z = 0

C15_Witness ==
    /\ pc = "lattice"
    /\ op.name = "vertex_adjacency"
    /\ n = 3
    /\ Len(ret) = 18
    /\ <<0, 4>> \in {ret[k] : k \in 1..Len(ret)}

\* C16: for N >= 3 vertex_interior_index of an interior vertex (x,y,z) is Some
\* of the index of (x-1,y-1,z-1) in the lattice of level N-3, a bijection from
\* the interior vertices onto 0..(N-1)(N-2)/2 - 1 that preserves index order;
\* for a vertex with a zero component it is None.
C16_InteriorIndex ==
    pc = "lattice" =>
        LET vs == subdivision.vertices
            inner == {k \in 1..Len(vs) : IsInterior(vs[k])}
            idx(k) == compute_vertex_interior_index(n, vs[k])
        IN  /\ op.name = "vertex_interior_index" =>
                  IF IsInterior(op.v)
                  THEN /\ n >= 3
                       /\ ret = Some(PositionIn(LatticeVertices(n - 3),
                                     IVec3(op.v.x - 1, op.v.y - 1, op.v.z - 1)))
                  ELSE ret = None
            /\ n >= 3 =>
                  /\ \A k \in inner : idx(k).some
                  /\ {idx(k).value : k \in inner} =
                        0..((((n - 1) * (n - 2)) \div 2) - 1)
                  /\ \A j, k \in inner : j < k => idx(j).value < idx(k).value

C16_Witness ==
    /\ pc = "lattice"
    /\ n = 5
    /\ op.name = "vertex_interior_index"
    /\ op.v = IVec3(2, 2, 1)
    /\ ret = Some(4)

\* where face k (1-based) starts in the vertex buffer and in the index buffer
\* when the 12 pentagons come first
VertexStart(k) == IF k <= 12 THEN 5 * (k - 1) ELSE 60 + 6 * (k - 13)

IndexStart(k) == IF k <= 12 THEN 9 * (k - 1) ELSE 108 + 12 * (k - 13)

\* C11: mesh_vertices lists the corners of face 0, then face 1, ..., the 12
\* pentagons (5 entries each) before the hexagons (6 each), 60 + 6*HEXAGONS
\* entries in all, and mesh_faces()[i] names exactly the contiguous range
\* holding the corners of face i, in corner order; the ranges partition
\* 0..MESH_VERTICES-1.
C11_MeshVerticesAligned ==
    (pc = "globe" /\ op.name = "mesh_vertices") =>
        LET mf == mesh_faces(n)
            cents == centroids(subdivision, seed, n, None)
        IN  /\ Len(ret) = 60 + 6 * (Len(faces) - 12)
            /\ Len(ret) = MESH_VERTICES(n)
            /\ Len(mf) = Len(faces)
            /\ \A k \in 1..Len(faces) :
                  /\ mf[k].kind = faces[k].kind
                  /\ Len(mf[k].v) = Len(faces[k].v)
                  /\ Len(faces[k].v) = IF k <= 12 THEN 5 ELSE 6
                  /\ \A j \in 1..Len(faces[k].v) :
                        /\ mf[k].v[j] = VertexStart(k) + j - 1
                        /\ ret[mf[k].v[j] + 1] =
                              ToArray(cents[PackedFace(faces[k].v[j]) + 1]
                                           [PackedSubdivision(faces[k].v[j]) + 1])
            /\ Flatten([k \in 1..Len(mf) |-> mf[k].v]) = Range(0, Len(ret))

C11_Witness ==
    /\ pc = "globe"
    /\ op.name = "mesh_vertices"
    /\ n = 3
    /\ Len(ret) = 60 + 6 * 80
    /\ mesh_faces(n)[13].v = <<60, 61, 62, 63, 64, 65>>

\* C12: mesh_triangles(mesh_faces()) fans every face from its first vertex,
\* in face order: (v0,v1,v2), (v0,v2,v3), (v0,v3,v4) and for a hexagon also
\* (v0,v4,v5); the buffer has 3*(3*12 + 4*HEXAGONS) indices, each below
\* MESH_VERTICES, and the three indices of a triangle belong to one face.
C12_FanTriangulation ==
    (pc = "globe" /\ op.name = "mesh_triangles") =>
        LET mf == mesh_faces(n)
            hexagons == Len(faces) - 12
        IN  /\ Len(ret) = 3 * (3 * 12 + 4 * hexagons)
            /\ \A k \in 1..Len(ret) : ret[k] >= 0 /\ ret[k] < 60 + 6 * hexagons
            /\ \A k \in 1..Len(mf) :
                  LET c == mf[k].v
                      at == IndexStart(k)
                  IN  \A t \in 1..(Len(c) - 2) :
                          SubSeq(ret, at + 3 * t - 2, at + 3 * t) =
                              <<c[1], c[t + 1], c[t + 2]>>
            /\ \A t \in 1..(Len(ret) \div 3) :
                  \E k \in 1..Len(mf) :
                      {ret[3 * t - 2], ret[3 * t - 1], ret[3 * t]}
                          \subseteq {mf[k].v[j] : j \in 1..Len(mf[k].v)}

C12_Witness ==
    /\ pc = "globe"
    /\ op.name = "mesh_triangles"
    /\ n = 2
    /\ Len(ret) = 3 * (36 + 120)
    /\ SubSeq(ret, 109, 120) = <<60, 61, 62, 60, 62, 63, 60, 63, 64, 60, 64, 65>>

\* C13: centroids(r) returns N*N points for each of the 20 seed faces, every
\* one assigned; the spherical average is evaluated only for base faces, and
\* each derived face's entries are its rotation applied to the entries of its
\* base, which is a base face whose entries are averages (never a derived
\* face, never a placeholder).
C13_CentroidsFilledFromBases ==
    (pc = "globe" /\ op.name = "centroids") =>
        LET bases == base_faces(seed)
            syms == symmetries(seed)
            baseIds == {bases[k][1] : k \in 1..Len(bases)}
        IN  /\ Len(ret) = 20
            /\ \A f \in 1..20 :
                  /\ Len(ret[f]) = n * n
                  /\ \A i \in 1..Len(ret[f]) : ret[f][i] # Vec3Zero
            /\ \A k \in 1..Len(bases) : \A i \in 1..(n * n) :
                  /\ ret[bases[k][1] + 1][i][1] = "slerp"
                  /\ ret[bases[k][1] + 1][i][4] = bases[k][2]
            /\ \A k \in 1..Len(syms) : \A i \in 1..(n * n) :
                  /\ syms[k][2] \in baseIds
                  /\ ret[syms[k][1] + 1][i] =
                        RotatedPoint(syms[k][3], ret[syms[k][2] + 1][i])
                  /\ ret[syms[k][2] + 1][i][1] = "slerp"

C13_Witness ==
    /\ pc = "globe"
    /\ op.name = "centroids"
    /\ n = 2
    /\ ret[20][4][1] = "rotated"
    /\ ret[20][4][3] = ret[16][4]
    /\ ret[16][4][1] = "slerp"

\* C19: mesh_normals on a buffer of MESH_VERTICES vertices returns
\* MESH_VERTICES normals, constant on each block of 5 in the pentagon range
\* 0..59 and on each block of 6 in the hexagon range, the blocks being the
\* face ranges of mesh_faces().
C19_NormalsConstantPerFace ==
    (pc = "globe" /\ op.name = "mesh_normals") =>
        LET mf == mesh_faces(n)
        IN  /\ Len(op.vertices) = 60 + 6 * (Len(faces) - 12)
            /\ Len(ret) = Len(op.vertices)
            /\ \A k \in 1..Len(mf) :
                  /\ mf[k].v[1] = VertexStart(k)
                  /\ \A j \in 1..Len(mf[k].v) :
                        /\ ret[mf[k].v[j] + 1] = ret[mf[k].v[1] + 1]
                        /\ ret[mf[k].v[j] + 1] # ArrayZero

C19_Witness ==
    /\ pc = "globe"
    /\ op.name = "mesh_normals"
    /\ n = 2
    /\ Len(ret) = 60 + 6 * 30
    /\ ret[66][2][1] = "sum"
    /\ ret[66] = ret[61]
    /\ ret[60][2][1] = "cross"

SlerpWeightsSumToOne == TreeReduceSum(op.w) = WeightUnit

\* C17: in a debug build slerp_n fails its assertion for every weight array
\* whose sum differs from 1.0 by more than epsilon, too large or too small,
\* and reaches the averaging loop only when the weights sum to 1.0.
C17_DebugWeightCheck ==
    (op.name = "slerp_n" /\ op.debug) =>
        /\ pc \in {"slerp_loop", "returned"} => SlerpWeightsSumToOne
        /\ pc = "panicked" => ~SlerpWeightsSumToOne

\* C18: for unit-length points and non-negative weights summing to 1,
\* slerp_n terminates and returns a unit-length point.
C18_SlerpTerminatesUnit ==
    (op.name = "slerp_n" /\ pc = "slerp_n" /\ SlerpWeightsSumToOne)
        ~> (pc = "returned" /\ ~ret.q.nan /\ ret.q.c \in {WeightUnit, -WeightUnit})

\* the 0-based indices of the lattice triangles that have vertex i as a corner
TrianglesAround(sub, i) ==
    {t - 1 : t \in {k \in 1..Len(sub.triangles) :
                       i \in {sub.triangles[k].u, sub.triangles[k].v, sub.triangles[k].w}}}

\* the positions of the corners of a face that lie on seed face f
CornersOn(face, f) == {k \in 1..Len(face.v) : PackedFace(face.v[k]) = f}

\* C21: vertex_index_to_face_index(f, i) is below FACES and the face stored
\* there surrounds lattice vertex i of seed face f: it has a corner on f, and
\* every corner of it on f is a lattice triangle with i as a corner; corner
\* vertices give pentagons, other boundary vertices edge hexagons, interior
\* vertices face hexagons.
C21_FaceAroundVertex ==
    (op.name = "vertex_index_to_face_index") =>
        /\ pc = "globe"
        /\ ret >= 0
        /\ ret < FACES(n)
        /\ ret < Len(faces)
        /\ LET vtx == subdivision.vertices[op.i + 1]
               face == faces[ret + 1]
               around == TrianglesAround(subdivision, op.i)
               zeros == Cardinality({c \in {"x", "y", "z"} : vtx[c] = 0})
           IN  /\ CornersOn(face, op.f) # {}
               /\ \A k \in CornersOn(face, op.f) :
                     PackedSubdivision(face.v[k]) \in around
               /\ zeros = 2 => ret < 12
               /\ zeros = 1 => ret >= 12 /\ ret < 12 + EdgeFaceCount(n)
               /\ zeros = 0 => ret >= 12 + EdgeFaceCount(n)

\* N = 4, seed face 7, interior vertex (1,2,1), the second interior vertex
C21_Witness ==
    /\ op.name = "vertex_index_to_face_index"
    /\ n = 4
    /\ op.f = 7
    /\ subdivision.vertices[op.i + 1] = IVec3(1, 2, 1)
    /\ ret = 12 + 90 + 7 * 3 + 1
    /\ Cardinality(CornersOn(faces[ret + 1], 7)) = 6

\* twice the signed area of the triangle (a, b, c) of lattice points, up to
\* a positive factor: the determinant of their barycentric coordinates
SignedArea(a, b, c) ==
    a.x * (b.y * c.z - b.z * c.y)
        - a.y * (b.x * c.z - b.z * c.x)
        + a.z * (b.x * c.y - b.y * c.x)

InLattice(vs, p) == \E k \in 1..Len(vs) : vs[k] = p

\* the triangle with corners a, b, c, as positions in the vertex list
TriangleAt(vs, a, b, c) ==
    Triangle(PositionIn(vs, a), PositionIn(vs, b), PositionIn(vs, c))

\* C22: the triangle list is the N(N+1)/2 upward triangles (v, v+(-1,1,0),
\* v+(-1,0,1)), one per vertex with x > 0 (the same vertices as x > 0, y < N,
\* z < N) in vertex order, then the N(N-1)/2 downward triangles (v,
\* v-(-1,1,0), v-(-1,0,1)), one per vertex with y > 0 and z > 0 (the same as
\* with x < N added); N*N in all, every corner a valid vertex index, and
\* every triangle has the same winding.
C22_TriangleList ==
    pc = "lattice" =>
        LET vs == subdivision.vertices
            ts == subdivision.triangles
            up == SelectSeq(vs, LAMBDA p : p.x > 0)
            down == SelectSeq(vs, LAMBDA p : p.y > 0 /\ p.z > 0)
            corner(i) == vs[i + 1]
        IN  /\ up = SelectSeq(vs, LAMBDA p : p.x > 0 /\ p.y < n /\ p.z < n)
            /\ down = SelectSeq(vs, LAMBDA p : p.x < n /\ p.y > 0 /\ p.z > 0)
            /\ Len(up) = (n * (n + 1)) \div 2
            /\ Len(down) = (n * (n - 1)) \div 2
            /\ Len(ts) = n * n
            /\ Len(ts) = Len(up) + Len(down)
            /\ \A k \in 1..Len(up) :
                  /\ InLattice(vs, IVec3Add(up[k], du))
                  /\ InLattice(vs, IVec3Add(up[k], dv))
                  /\ ts[k] = TriangleAt(vs, up[k], IVec3Add(up[k], du),
                                        IVec3Add(up[k], dv))
            /\ \A k \in 1..Len(down) :
                  /\ InLattice(vs, IVec3Sub(down[k], du))
                  /\ InLattice(vs, IVec3Sub(down[k], dv))
                  /\ ts[Len(up) + k] = TriangleAt(vs, down[k], IVec3Sub(down[k], du),
                                                  IVec3Sub(down[k], dv))
            /\ \A k \in 1..Len(ts) :
                  /\ {ts[k].u, ts[k].v, ts[k].w} \subseteq 0..(Len(vs) - 1)
                  /\ SignedArea(corner(ts[k].u), corner(ts[k].v), corner(ts[k].w)) > 0

\* N = 3: triangle 0 points up from (1,0,2), triangle 6 is the first one
\* pointing down, from (0,1,2)
C22_Witness ==
    /\ pc = "lattice"
    /\ op.name = "SubdividedTriangle::new"
    /\ n = 3
    /\ subdivision.triangles[1] = Triangle(4, 1, 0)
    /\ subdivision.triangles[7] = Triangle(1, 4, 5)

\* the corners of triangle t (0-based) as lattice points, in stored order
CornerPoints(sub, t) ==
    << sub.vertices[sub.triangles[t + 1].u + 1],
       sub.vertices[sub.triangles[t + 1].v + 1],
       sub.vertices[sub.triangles[t + 1].w + 1] >>

\* "upward pointing": u.x > v.x, u.x > w.x and v.x = w.x
PointsUp(sub, t) ==
    LET c == CornerPoints(sub, t)
    IN  c[1].x > c[2].x /\ c[1].x > c[3].x /\ c[2].x = c[3].x

\* three times the centroid of triangle t
UnscaledCentroid(sub, t) ==
    LET c == CornerPoints(sub, t)
    IN  IVec3Add(IVec3Add(c[1], c[2]), c[3])

\* C23: for 0 <= i < N, row(i) is the 2(N-i)-1 triangles between the lattice
\* lines x = i and x = i+1: each has a corner with x = i, upward and downward
\* triangles alternate starting and ending with an upward one, none repeats,
\* and the centroid y coordinates ascend; for i >= N the row is empty.
C23_Row ==
    (op.name = "row") =>
        IF op.i >= n
        THEN ret = <<>>
        ELSE /\ Len(ret) = 2 * (n - op.i) - 1
             /\ \A k \in 1..Len(ret) :
                   /\ ret[k] \in 0..(n * n - 1)
                   /\ \E c \in 1..3 : CornerPoints(subdivision, ret[k])[c].x = op.i
                   /\ \A c \in 1..3 :
                         CornerPoints(subdivision, ret[k])[c].x \in {op.i, op.i + 1}
                   /\ PointsUp(subdivision, ret[k]) <=> (k % 2 = 1)
             /\ \A j, k \in 1..Len(ret) : j < k => ret[j] # ret[k]
             /\ \A k \in 1..(Len(ret) - 1) :
                   UnscaledCentroid(subdivision, ret[k]).y
                       < UnscaledCentroid(subdivision, ret[k + 1]).y

C23_Witness ==
    /\ op.name = "row"
    /\ n = 4
    /\ op.i = 1
    /\ ret = <<4, 13, 5, 14, 6>>

\* the coordinate that is zero along a boundary edge of the parent triangle
ZeroAlong(edge) ==
    CASE edge = "uv" -> "z"
      [] edge = "vw" -> "x"
      [] edge = "wu" -> "y"

\* the centroid coordinate each run is documented to descend in
SortedBy(edge) ==
    CASE edge = "uv" -> "x"
      [] edge = "vw" -> "y"
      [] edge = "wu" -> "z"

\* how many corners of triangle t lie on the edge
CornersOnEdge(sub, t, edge) ==
    Cardinality({c \in 1..3 : CornerPoints(sub, t)[c][ZeroAlong(edge)] = 0})

\* C24: uv(), vw() and wu() each return 2N-1 distinct triangle indices, every
\* one with a corner on its edge (z = 0, x = 0, y = 0), alternating upward
\* triangles with two corners on the edge and downward triangles with one,
\* sorted by descending centroid x, y and z respectively.
C24_EdgeRuns ==
    (op.name = "edge_run") =>
        /\ Len(ret) = 2 * n - 1
        /\ \A j, k \in 1..Len(ret) : j < k => ret[j] # ret[k]
        /\ \A k \in 1..Len(ret) :
              /\ ret[k] \in 0..(n * n - 1)
              /\ CornersOnEdge(subdivision, ret[k], op.edge) >= 1
              /\ IF k % 2 = 1
                 THEN /\ PointsUp(subdivision, ret[k])
                      /\ CornersOnEdge(subdivision, ret[k], op.edge) = 2
                 ELSE /\ ~PointsUp(subdivision, ret[k])
                      /\ CornersOnEdge(subdivision, ret[k], op.edge) = 1
        /\ \A k \in 1..(Len(ret) - 1) :
              UnscaledCentroid(subdivision, ret[k])[SortedBy(op.edge)]
                  > UnscaledCentroid(subdivision, ret[k + 1])[SortedBy(op.edge)]

\* the corners of the parent triangle: (N,0,0), (0,N,0), (0,0,N)
ParentCorner(corner, m) ==
    CASE corner = "u" -> IVec3(m, 0, 0)
      [] corner = "v" -> IVec3(0, m, 0)
      [] corner = "w" -> IVec3(0, 0, m)

\* the 0-based indices of the triangles that have the lattice point p as a
\* corner
TrianglesAt(sub, p) ==
    {t \in 0..(Len(sub.triangles) - 1) :
        \E c \in 1..3 : CornerPoints(sub, t)[c] = p}

\* C25: u(), v() and w() are the index of the one triangle that has
\* (N,0,0), (0,N,0), (0,0,N) respectively as a corner: N(N+1)/2 - 1, N - 1
\* and 0.
C25_CornerTriangles ==
    (op.name = "corner_triangle") =>
        /\ TrianglesAt(subdivision, ParentCorner(op.corner, n)) = {ret}
        /\ op.corner = "u" => ret = (n * (n + 1)) \div 2 - 1
        /\ op.corner = "v" => ret = n - 1
        /\ op.corner = "w" => ret = 0

C25_Witness ==
    /\ op.name = "corner_triangle"
    /\ op.corner = "v"
    /\ n = 4
    /\ ret = 3
    /\ CornerPoints(subdivision, ret)[2] = IVec3(0, 4, 0)

EdgeRunNames == {"uv", "vw", "wu"}

EdgeRunOf(name, m) ==
    CASE name = "uv" -> uv(m)
      [] name = "vw" -> vw(m)
      [] name = "wu" -> wu(m)

\* the hexagons the j-th seed edge (0-based) contributes to a list of edge
\* hexagons
EdgeGroup(hexs, m, j) == SubSeq(hexs, j * (m - 1) + 1, (j + 1) * (m - 1))

\* the (face_a, face_b) pair of a group, read off its first hexagon
EdgePair(hexs, m, j) ==
    << PackedFace(EdgeGroup(hexs, m, j)[1].v[1]),
       PackedFace(EdgeGroup(hexs, m, j)[1].v[4]) >>

\* corners 0..2 of the p-th hexagon of a group are entries 2p, 2p+1, 2p+2 of
\* the run
FollowsRun(group, run) ==
    \A p \in 1..Len(group) : \A c \in 1..3 :
        PackedSubdivision(group[p].v[c]) = run[2 * (p - 1) + c]

\* corners 3..5 of the p-th hexagon are entries 2p+2, 2p+1, 2p of the
\* reversed run
FollowsReversedRun(group, run) ==
    \A p \in 1..Len(group) : \A c \in 1..3 :
        PackedSubdivision(group[p].v[3 + c]) = Rev(run)[2 * (p - 1) + (4 - c)]

\* the runs of seed face f that the j-th group is built from
RunsUsed(hexs, m, j, f) ==
    {r \in EdgeRunNames :
        \/ EdgePair(hexs, m, j)[1] = f
             /\ FollowsRun(EdgeGroup(hexs, m, j), EdgeRunOf(r, m))
        \/ EdgePair(hexs, m, j)[2] = f
             /\ FollowsReversedRun(EdgeGroup(hexs, m, j), EdgeRunOf(r, m))}

\* C26: for N >= 2 the edge-face generator emits N-1 hexagons for each of 30
\* (face_a, face_b) pairs with face_a # face_b, no two pairs the same seed
\* edge; every seed face is in exactly three pairs, once with each of its
\* uv, vw and wu runs; corners 0..2 of every hexagon are on face_a, corners
\* 3..5 on face_b and come from the reversed run of face_b.
C26_EdgeFacesCoverSeedEdges ==
    (op.name = "edge_faces_from_template" /\ n >= 2) =>
        /\ Len(ret) = 30 * (n - 1)
        /\ \A j \in 0..29 :
              LET pair == EdgePair(ret, n, j)
                  group == EdgeGroup(ret, n, j)
              IN  /\ pair[1] # pair[2]
                  /\ Len(group) = n - 1
                  /\ \A p \in 1..Len(group) :
                        /\ \A c \in 1..3 : PackedFace(group[p].v[c]) = pair[1]
                        /\ \A c \in 4..6 : PackedFace(group[p].v[c]) = pair[2]
                  /\ \E r \in EdgeRunNames :
                        FollowsReversedRun(group, EdgeRunOf(r, n))
        /\ \A i, j \in 0..29 :
              i < j => {EdgePair(ret, n, i)[1], EdgePair(ret, n, i)[2]}
                           # {EdgePair(ret, n, j)[1], EdgePair(ret, n, j)[2]}
        /\ \A f \in 0..19 :
              LET mine == {j \in 0..29 : f \in {EdgePair(ret, n, j)[1],
                                                 EdgePair(ret, n, j)[2]}}
              IN  /\ Cardinality(mine) = 3
                  /\ \A j \in mine : Cardinality(RunsUsed(ret, n, j, f)) = 1
                  /\ UNION {RunsUsed(ret, n, j, f) : j \in mine} = EdgeRunNames

\* N = 3: the sixteenth seed edge joins faces 10 and 6 along their wu runs
C26_Witness ==
    /\ op.name = "edge_faces_from_template"
    /\ n = 3
    /\ Len(ret) = 60
    /\ EdgePair(ret, n, 15) = <<10, 6>>
    /\ RunsUsed(ret, n, 15, 10) = {"wu"}
    /\ RunsUsed(ret, n, 15, 6) = {"wu"}

\* the interior vertices of the lattice, in vertex order
InteriorVertices(sub) == SelectSeq(sub.vertices, IsInterior)

\* C27: for N >= 3 the face-face generator emits, for seed face 0, then 1,
\* ..., one hexagon per interior lattice vertex in ascending interior-index
\* order; its six corners are on that seed face and are exactly the six
\* lattice triangles that have the vertex as a corner.
C27_FaceFacesAroundInteriorVertices ==
    (op.name = "face_faces_from_template" /\ n >= 3) =>
        LET interior == InteriorVertices(subdivision)
            per == Len(interior)
        IN  /\ per = ((n - 1) * (n - 2)) \div 2
            /\ Len(ret) = 20 * per
            /\ \A k \in 1..Len(ret) :
                  LET f == (k - 1) \div per
                      j == (k - 1) % per
                      vtx == interior[j + 1]
                      around == TrianglesAround(subdivision,
                                                PositionIn(subdivision.vertices, vtx))
                  IN  /\ compute_vertex_interior_index(n, vtx) = Some(j)
                      /\ Cardinality(around) = 6
                      /\ Len(ret[k].v) = 6
                      /\ {ret[k].v[c] : c \in 1..6}
                            = {PackedIndexNew(f, t) : t \in around}

\* N = 4: hexagon 4 is the second interior vertex, (1,2,1), of seed face 1
C27_Witness ==
    /\ op.name = "face_faces_from_template"
    /\ n = 4
    /\ Len(ret) = 60
    /\ InteriorVertices(subdivision)[2] = IVec3(1, 2, 1)
    /\ {PackedFace(ret[5].v[c]) : c \in 1..6} = {1}
    /\ {PackedSubdivision(ret[5].v[c]) : c \in 1..6}
          = TrianglesAround(subdivision,
                            PositionIn(subdivision.vertices, IVec3(1, 2, 1)))

CornerSet(face) == {face.v[c] : c \in 1..Len(face.v)}

\* the 0-based indices of the faces that have the key as a corner
FacesAtCorner(fs, key) == {k - 1 : k \in {i \in 1..Len(fs) : key \in CornerSet(fs[i])}}

\* C28: every corner of the face list is a key with seed-face id < 20 and
\* triangle index < N*N, the corners of one face are pairwise distinct, and
\* each of the 20*N*N (seed face, triangle) pairs is a corner of exactly three
\* faces, so the list holds 60*N*N corners.
C28_CornersAreDegreeThree ==
    Built =>
        /\ \A k \in 1..Len(faces) :
              /\ \A c \in 1..Len(faces[k].v) :
                    /\ PackedFace(faces[k].v[c]) < 20
                    /\ PackedSubdivision(faces[k].v[c]) < n * n
              /\ Cardinality(CornerSet(faces[k])) = Len(faces[k].v)
        /\ \A f \in 0..19, t \in 0..(n * n - 1) :
              Cardinality(FacesAtCorner(faces, PackedIndexNew(f, t))) = 3
        /\ 5 * CountKind(faces, "Pentagon") + 6 * CountKind(faces, "Hexagon")
              = 60 * n * n

\* N = 3: triangle 7 of seed face 12, a downward triangle with one corner on
\* the boundary, is a corner of two edge hexagons and of the face hexagon
C28_Witness ==
    /\ Built
    /\ n = 3
    /\ LET at == FacesAtCorner(faces, PackedIndexNew(12, 7))
       IN  /\ Cardinality(at) = 3
           /\ 72 + 12 \in at
           /\ \A a \in at \ {72 + 12} : a >= 12 /\ a < 72

\* C29: adjacency() fills its buffer exactly: vertex_adjacency() yields
\* 3N(N+1)/2 lattice edges, the call does not panic, all 20*EDGES slots are
\* written (none keeps the (0,0) placeholder), every face index is below
\* FACES and no pair is a self-loop.
C29_AdjacencyBufferFilled ==
    (op.name = "adjacency") =>
        /\ pc = "globe"
        /\ Len(vertex_adjacency(n)) = (3 * n * (n + 1)) \div 2
        /\ Len(AdjacencyWrites(subdivision, n)) = 20 * ((3 * n * (n + 1)) \div 2)
        /\ Len(ret) = 20 * ((3 * n * (n + 1)) \div 2)
        /\ \A k \in 1..Len(ret) :
              /\ ret[k] = AdjacencyWrites(subdivision, n)[k]
              /\ ret[k] # <<0, 0>>
              /\ ret[k][1] # ret[k][2]
              /\ ret[k][1] \in 0..(FACES(n) - 1)
              /\ ret[k][2] \in 0..(FACES(n) - 1)

\* N = 2: 9 lattice edges, 180 slots, the last one written by seed face 19
C29_Witness ==
    /\ op.name = "adjacency"
    /\ pc = "globe"
    /\ n = 2
    /\ Len(ret) = 180
    /\ ret[180] = << vertex_index_to_face_index(subdivision, n, 19, vertex_adjacency(n)[9][1]),
                     vertex_index_to_face_index(subdivision, n, 19, vertex_adjacency(n)[9][2]) >>
    /\ ret[180] # <<0, 0>>

\* the positions, in the calls adjacency() makes, of those that take the
\* last arm of vertex_index_to_face_index
InteriorArmCalls(sub, m) ==
    {k \in 1..Len(AdjacencyCalls(m)) :
        MatchArm(vertex_denominator(sub, AdjacencyCalls(m)[k][2])) = "face"}

\* C30: for N = 1 and N = 2 no call made by adjacency() takes the interior
\* arm, so N - 3 is never evaluated below zero; for N >= 3 the arm is taken
\* only for vertices with x, y, z >= 1, and the interior index computed for
\* them is below (N-1)(N-2)/2.
C30_InteriorArmOnlyForInteriorVertices ==
    (op.name = "adjacency") =>
        /\ pc # "panicked"
        /\ ~AdjacencyUnderflows(subdivision, n)
        /\ n < 3 => InteriorArmCalls(subdivision, n) = {}
        /\ n >= 3 =>
              \A k \in InteriorArmCalls(subdivision, n) :
                  LET vtx == vertex_denominator(subdivision, AdjacencyCalls(n)[k][2])
                  IN  /\ vtx.x >= 1 /\ vtx.y >= 1 /\ vtx.z >= 1
                      /\ compute_vertex_interior_index_unchecked(n, vtx) >= 0
                      /\ compute_vertex_interior_index_unchecked(n, vtx)
                            < ((n - 1) * (n - 2)) \div 2

\* N = 3: the calls for the lattice edges at (1,1,1) take the interior arm,
\* with N - 3 = 0 and interior index 0
C30_Witness ==
    /\ op.name = "adjacency"
    /\ pc = "globe"
    /\ n = 3
    /\ InteriorArmCalls(subdivision, n) # {}
    /\ \A k \in InteriorArmCalls(subdivision, n) :
          /\ vertex_denominator(subdivision, AdjacencyCalls(n)[k][2]) = IVec3(1, 1, 1)
          /\ compute_vertex_interior_index_unchecked(
                 n, vertex_denominator(subdivision, AdjacencyCalls(n)[k][2])) = 0

====
